---- MODULE Spec2Model ----
(***************************************************************************)
(* A model of the EPUB readability analysis (LIX) of bygvraa/epub.         *)
(*                                                                         *)
(* Sources: src/unnamed/part_000 (utils.ts followed by the stand-alone     *)
(* analyzeEpub.ts), src/unnamed/part_001 (the cloud-function               *)
(* analyzeEpub.ts followed by index.ts), src/handleAnalyzeEpub.ts.         *)
(*                                                                         *)
(* JavaScript numbers are modelled exactly: a per-item LIX score is a      *)
(* natural number, NaN or Infinity; a standard deviation is carried as its *)
(* square (the variance, a fraction num/den), so that every comparison the *)
(* code makes with it is decided in integer arithmetic; a median, which    *)
(* may be a half, is a fraction <<num, den>> in lowest terms.              *)
(***************************************************************************)
EXTENDS Integers, Sequences, FiniteSets, TLC

VARIABLES
    \* calculateLixFromStats, called on its own
    stats,            \* the TextContentStats argument
    lix,              \* the number returned (0 before the call)
    \* getMedian, called on its own
    array,            \* the caller's array
    arrayBefore,      \* the caller's array as it was before the call
    median,           \* the value returned (Nullish before the call)
    \* getMedianWithStandardDeviation, called on its own on `array`
    textStandardDeviation,   \* its second argument
    standardDeviationCap,    \* its third argument
    \* filterItemsUsingStandardDeviation, called on its own
    items,            \* the argument of the first call
    filtered,         \* what the first call returned
    refiltered,       \* what a second call, on `filtered`, returned
    calls,            \* how many calls of the function under study have returned
    \* analyzeEpub
    variant,          \* which copy of the pipeline runs: "part_000" or "part_001"
    container,        \* the archive's mimetype, container.xml and package document
    manifest,         \* the items the package document's manifest declares
    zipItems,         \* per declared content document, the archive entry behind it
    opfPath,          \* findOpfPath's result ("" before it)
    spineItemPaths,   \* extractItemPathsFromManifest's result
    spineItems,       \* extractItemsFromSpine's result
    spineItemContent, \* the scored items before the truthiness filter
    filterInput,      \* the list handed to filterItemsUsingStandardDeviation
    spineItemStats,   \* getSpineItemStats' result
    lixValues,        \* the argument of the getMedian call (<<>> before it)
    analysis,         \* the Analysis returned (Nullish before it)
    thrown,           \* the function whose throw ended the call or the run ("" if none)
    pc,               \* where analyzeEpub stands
    \* searchForLixInItems, called on its own
    searchItems,      \* the SpineItems argument
    searchResult,     \* the value returned (Nullish before the call)
    \* getContentFromText / extractContentFromText and searchForLixInText, called on
    \* their own
    chars,            \* the text argument, a sequence of characters
    textContent,      \* the TextContent returned (empty before the call)
    lixInText,        \* what searchForLixInText returned (Nullish before the call)
    \* the per-item promises of analyzeEpub
    extractPromises,  \* extractItemsFromSpine: one promise per path, [settled, value]
    settleOrder,      \* the indices of those promises in the order they settled
    scorePromises,    \* getSpineItemStats: one promise per content item
    \* handleAnalyzeEpubTrigger and handleAnalyzeEpubAPI, running side by side
    request,          \* per invocation: the handler and what it is called with
    hpc,              \* per invocation: where the handler stands
    tempFilePath,     \* per invocation: the path downloadEpubFromStorage made ("" before)
    buffer,           \* per invocation: what loadZip read from the temp file
    handlerAnalysis,  \* per invocation: the Analysis analyzeEpub returned ("" before)
    upload,           \* per invocation: the state of the two uploads
    unlink,           \* per invocation: the state of the fs.unlink of the temp file
    tempFiles,        \* the temporary directory: per path, the file there
    realtimeDb,       \* Realtime Database: per material, the analysis stored
    firestoreDb       \* Firestore: per material, the analysis stored

lixVars == <<stats, lix>>
medianVars == <<array, arrayBefore, median, textStandardDeviation, standardDeviationCap>>
filterVars == <<items, filtered, refiltered>>
pipeVars == <<variant, container, manifest, zipItems, opfPath, spineItemPaths,
              spineItems, spineItemContent, filterInput, spineItemStats, lixValues,
              analysis, pc>>
searchVars == <<searchItems, searchResult>>
textVars == <<chars, textContent, lixInText>>
taskVars == <<extractPromises, settleOrder, scorePromises>>
handlerVars == <<request, hpc, tempFilePath, buffer, handlerAnalysis, upload, unlink,
                 tempFiles, realtimeDb, firestoreDb>>
vars == <<stats, lix, array, arrayBefore, median, textStandardDeviation,
          standardDeviationCap, items, filtered, refiltered, calls,
          variant, container, manifest, zipItems, opfPath, spineItemPaths,
          spineItems, spineItemContent, filterInput, spineItemStats, lixValues,
          analysis, thrown, pc, searchItems, searchResult, chars, textContent, lixInText,
          extractPromises, settleOrder, scorePromises, request, hpc, tempFilePath,
          buffer, handlerAnalysis, upload, unlink, tempFiles, realtimeDb, firestoreDb>>

(***************************************************************************)
(* Bounds of the model.                                                    *)
(***************************************************************************)
\* longest array handed to getMedian on its own
MaxArrayLen == 4
\* largest element of such an array
MaxArrayVal == 4
\* longest list handed to filterItemsUsingStandardDeviation on its own
MaxFilterLen == 4
\* most spine paths of one EPUB
MaxSpineItems == 3
\* largest word count and sentence count handed to calculateLixFromStats on its own
MaxWords == 12

(***************************************************************************)
(* JavaScript values.                                                      *)
(***************************************************************************)
\* 0 / 0
NaN == -1
\* n / 0 for n > 0
Infinity == -2
\* null and undefined: what ?? skips
Nullish == <<>>

\* a ?? b
Coalesce(a, b) == IF a = Nullish THEN b ELSE a

\* ToBoolean of a number: NaN and 0 are falsy, every other number is truthy
Truthy(n) == n # NaN /\ n # 0

\* the fraction p / q (q > 0) in lowest terms, as <<numerator, denominator>>
RECURSIVE Gcd(_, _)
Gcd(a, b) == IF b = 0 THEN a ELSE Gcd(b, a % b)

Fraction(p, q) ==
    LET g == Gcd(p, q)
    IN  IF p = 0 THEN <<0, 1>> ELSE <<p \div g, q \div g>>

\* Number(x.toFixed()) of the non-negative fraction p / q: the nearest integer,
\* the larger one when two are equally near
ToFixed0(p, q) == (2 * p + q) \div (2 * q)

\* the numbers of a sequence, summed
RECURSIVE SumSeq(_)
SumSeq(s) == IF s = <<>> THEN 0 ELSE Head(s) + SumSeq(Tail(s))

\* s with its element at index i (1-based) removed: Array.prototype.splice(i, 1)
Splice(s, i) == [j \in 1..(Len(s) - 1) |-> IF j < i THEN s[j] ELSE s[j + 1]]

(***************************************************************************)
(* calculateLixFromStats (part_001:527-541, part_000:619-633)              *)
(***************************************************************************)
calculateLixFromStats_Truncating(st) ==
    LET word_count == st.word_count
        long_word_count == st.long_word_count
        sentence_count == st.sentence_count
    IN  IF word_count = 0 THEN NaN
        ELSE IF sentence_count = 0 THEN Infinity
        ELSE (word_count * word_count + long_word_count * 100 * sentence_count)
                 \div (word_count * sentence_count)

\* sentenceLength = word_count / sentence_count, longWordRatio =
\* long_word_count * 100 / word_count, and their sum rounded by toFixed().
\* With word_count = 0 the ratio is 0 / 0 = NaN (long_word_count <= word_count),
\* with only sentence_count = 0 the length is Infinity.
calculateLixFromStats(st) ==
    LET word_count == st.word_count
        long_word_count == st.long_word_count
        sentence_count == st.sentence_count
    IN  IF word_count = 0 THEN NaN
        ELSE IF sentence_count = 0 THEN Infinity
        ELSE ToFixed0(word_count * word_count + long_word_count * 100 * sentence_count,
                      word_count * sentence_count)

(***************************************************************************)
(* Array.prototype.sort with a comparator that subtracts a number of one   *)
(* element from that of the other: ascending by that number, and stable    *)
(* (ECMAScript 2019), so elements of equal number keep their order.        *)
(* key[j] is the number of s[j].                                           *)
(***************************************************************************)
SortByKey(s, key) ==
    LET rank(j) == 1 + Cardinality({i \in 1..Len(s) :
                        key[i] < key[j] \/ (key[i] = key[j] /\ i < j)})
    IN  [p \in 1..Len(s) |-> s[CHOOSE j \in 1..Len(s) : rank(j) = p]]

\* the generated_lix of each item, in order
LixOf(arr) == [j \in 1..Len(arr) |-> arr[j].generated_lix]

\* sort((a, b) => a - b)
SortNumbers(arr) == SortByKey(arr, arr)

SortByLix_TiesReversed(arr) ==
    LET rev == [j \in 1..Len(arr) |-> arr[Len(arr) + 1 - j]]
    IN  SortByKey(rev, LixOf(rev))

\* sort((a, b) => a.generated_lix - b.generated_lix)
SortByLix(arr) == SortByKey(arr, LixOf(arr))

(***************************************************************************)
(* utils.getMedian (part_000:36-45)                                        *)
(***************************************************************************)
getMedian_Unsorted(arr) ==
    LET midIndex == Len(arr) \div 2
    IN  IF Len(arr) = 0 THEN Nullish
        ELSE IF Len(arr) % 2 = 0 /\ Len(arr) > 1
             THEN Fraction(arr[midIndex] + arr[midIndex + 1], 2)
             ELSE <<arr[midIndex + 1], 1>>

\* sortedArr is a sorted copy (slice); midIndex is 0-based in the code, so
\* sortedArr[midIndex] is the element at midIndex + 1 here.  Of an empty array
\* sortedArr[0] is undefined.
getMedian(arr) ==
    LET sortedArr == SortNumbers(arr)
        midIndex == Len(sortedArr) \div 2
    IN  IF Len(sortedArr) = 0 THEN Nullish
        ELSE IF Len(sortedArr) % 2 = 0 /\ Len(sortedArr) > 1
             THEN Fraction(sortedArr[midIndex] + sortedArr[midIndex + 1], 2)
             ELSE <<sortedArr[midIndex + 1], 1>>

\* utils.getMean (part_000:47-58), as the fraction sum / length
getMean(arr) == IF Len(arr) = 0 THEN <<0, 1>> ELSE Fraction(SumSeq(arr), Len(arr))

(***************************************************************************)
(* utils.getStandardDeviation (part_000:60-75).  The code returns the      *)
(* square root of the variance; the model returns the variance itself, as  *)
(* the fraction num / den: with mean = sum / n each deviation is           *)
(* (n * x - sum) / n, its square (n * x - sum)^2 / n^2 and the mean of the *)
(* squares their sum over n^3.  An empty array gives 0.                    *)
(***************************************************************************)
getVariance(arr) ==
    LET length == Len(arr)
        sum == SumSeq(arr)
        deviationsSq == [i \in 1..length |-> (length * arr[i] - sum) * (length * arr[i] - sum)]
    IN  IF length = 0 THEN [num |-> 0, den |-> 1]
        ELSE [num |-> SumSeq(deviationsSq), den |-> length * length * length]

\* stdDev > cap, for cap >= 0
StdDevGreater(variance, cap) == variance.num > cap * cap * variance.den

\* value > midValue + stdDev
AboveUpperBound(value, midValue, variance) ==
    /\ value > midValue
    /\ (value - midValue) * (value - midValue) * variance.den > variance.num

\* value < midValue - stdDev
BelowLowerBound(value, midValue, variance) ==
    /\ value < midValue
    /\ (midValue - value) * (midValue - value) * variance.den > variance.num

(***************************************************************************)
(* filterItemsUsingStandardDeviation (part_001:550-603, part_000:642-677)  *)
(***************************************************************************)
\* const STANDARD_DEVIATION_FACTOR = 6, the maxStdDev of the only call
STANDARD_DEVIATION_FACTOR == 6

\* sortedArr[midIndex].generated_lix with midIndex = floor(length / 2), 0-based
MidValue(sortedArr) == sortedArr[(Len(sortedArr) \div 2) + 1].generated_lix

RECURSIVE FilterLoop_NoDecrement(_, _, _, _)
FilterLoop_NoDecrement(sortedArr, i, midValue, stdDev) ==
    IF i >= Len(sortedArr) THEN sortedArr
    ELSE LET high == AboveUpperBound(sortedArr[i + 1].generated_lix, midValue, stdDev)
             arr1 == IF high THEN Splice(sortedArr, i + 1) ELSE sortedArr
         IN  IF i >= Len(arr1) THEN arr1
             ELSE LET low == BelowLowerBound(arr1[i + 1].generated_lix, midValue, stdDev)
                      arr2 == IF low THEN Splice(arr1, i + 1) ELSE arr1
                  IN  FilterLoop_NoDecrement(arr2, i + 1, midValue, stdDev)

\* The for loop of lines 567-594, from index i (0-based, as in the code) on.
\* Each removal is splice(i, 1) followed by i--, and the second test reads
\* sortedArr[i] again after the first removal: if that index is outside the
\* array the read of .generated_lix throws, the catch of line 597 returns
\* sortedArr as it then is.
RECURSIVE FilterLoop(_, _, _, _)
FilterLoop(sortedArr, i, midValue, stdDev) ==
    IF i >= Len(sortedArr) THEN sortedArr
    ELSE LET high == AboveUpperBound(sortedArr[i + 1].generated_lix, midValue, stdDev)
             arr1 == IF high THEN Splice(sortedArr, i + 1) ELSE sortedArr
             i1 == IF high THEN i - 1 ELSE i
         IN  IF i1 < 0 \/ i1 >= Len(arr1) THEN arr1
             ELSE LET low == BelowLowerBound(arr1[i1 + 1].generated_lix, midValue, stdDev)
                      arr2 == IF low THEN Splice(arr1, i1 + 1) ELSE arr1
                      i2 == IF low THEN i1 - 1 ELSE i1
                  IN  FilterLoop(arr2, i2 + 1, midValue, stdDev)

filterItemsUsingStandardDeviation_AlwaysFiltering(its, maxStdDev) ==
    LET sortedArr == SortByLix(its)
    IN  IF Len(sortedArr) = 0 THEN [threw |-> TRUE, value |-> <<>>]
        ELSE [threw |-> FALSE,
              value |-> FilterLoop(sortedArr, 0, MidValue(sortedArr),
                                   getVariance(LixOf(sortedArr)))]

filterItemsUsingStandardDeviation_EmptyAllowed(its, maxStdDev) ==
    LET sortedArr == SortByLix(its)
    IN  IF Len(sortedArr) = 0 THEN [threw |-> FALSE, value |-> <<>>]
        ELSE LET stdDev == getVariance(LixOf(sortedArr))
             IN  [threw |-> FALSE,
                  value |-> IF StdDevGreater(stdDev, maxStdDev)
                            THEN FilterLoop(sortedArr, 0, MidValue(sortedArr), stdDev)
                            ELSE sortedArr]

\* The result is [threw, value]: of an empty list sortedArr[0] is undefined and
\* line 556 throws, outside the try; otherwise value is the array returned.
\* The scores are whole numbers, so Number(x.toFixed()) leaves them as they are.
filterItemsUsingStandardDeviation(its, maxStdDev) ==
    LET sortedArr == SortByLix(its)
    IN  IF Len(sortedArr) = 0 THEN [threw |-> TRUE, value |-> <<>>]
        ELSE LET midValue == MidValue(sortedArr)
                 stdDev == getVariance(LixOf(sortedArr))
             IN  [threw |-> FALSE,
                  value |-> IF StdDevGreater(stdDev, maxStdDev)
                            THEN FilterLoop(sortedArr, 0, midValue, stdDev)
                            ELSE sortedArr]

(***************************************************************************)
(* The pure functions, each called on its own with arguments drawn from    *)
(* bounded sets.                                                           *)
(***************************************************************************)
IdleLix == stats = [word_count |-> 0, long_word_count |-> 0, sentence_count |-> 0] /\ lix = 0
IdleMedian ==
    /\ array = <<>> /\ arrayBefore = <<>> /\ median = Nullish
    /\ textStandardDeviation = 0 /\ standardDeviationCap = 0
IdleFilter == items = <<>> /\ filtered = <<>> /\ refiltered = <<>>
IdleSearch == searchItems = <<>> /\ searchResult = Nullish
IdleText ==
    /\ chars = <<>>
    /\ textContent = [threw |-> FALSE, words |-> <<>>, long_words |-> <<>>, sentences |-> <<>>]
    /\ lixInText = Nullish
IdleTasks == extractPromises = <<>> /\ settleOrder = <<>> /\ scorePromises = <<>>
IdleHandlers ==
    /\ request = <<>> /\ hpc = <<>> /\ tempFilePath = <<>> /\ buffer = <<>>
    /\ handlerAnalysis = <<>> /\ upload = <<>> /\ unlink = <<>>
    /\ tempFiles = <<>> /\ realtimeDb = <<>> /\ firestoreDb = <<>>
IdleSteps ==
    /\ container = [mimetype |-> "", rootfile |-> "", opf |-> FALSE]
    /\ manifest = <<>>
    /\ zipItems = <<>>
    /\ opfPath = ""
    /\ spineItemPaths = <<>>
    /\ spineItems = <<>>
    /\ spineItemContent = <<>>
    /\ filterInput = <<>>
    /\ spineItemStats = <<>>
    /\ lixValues = <<>>
    /\ analysis = Nullish
    /\ pc = "idle"
IdlePipe == variant = "part_001" /\ IdleSteps

\* the stats triples of the spec's two worked examples
LixExamples ==
    { [word_count |-> 40, long_word_count |-> 8, sentence_count |-> 4],
      [word_count |-> 100, long_word_count |-> 5, sentence_count |-> 5] }

\* a long word is a word, so long_word_count <= word_count
StatsInputs ==
    { st \in [word_count : 0..MaxWords, long_word_count : 0..MaxWords,
              sentence_count : 0..MaxWords] : st.long_word_count <= st.word_count }
    \cup LixExamples

InitLix ==
    /\ stats \in StatsInputs
    /\ lix = 0
    /\ calls = 0 /\ thrown = ""
    /\ IdleMedian /\ IdleFilter /\ IdlePipe /\ IdleSearch /\ IdleText
    /\ IdleTasks /\ IdleHandlers

CalculateLix ==
    /\ calls = 0
    /\ lix' = calculateLixFromStats(stats)
    /\ calls' = 1
    /\ UNCHANGED <<stats, thrown, medianVars, filterVars, pipeVars,
                   searchVars, textVars, taskVars, handlerVars>>

NextLix == CalculateLix

SpecLix == InitLix /\ [][NextLix]_vars

\* every sequence over S of length at most n
SeqsUpTo(S, n) == UNION { [1..k -> S] : k \in 0..n }

InitMedian ==
    /\ array \in SeqsUpTo(0..MaxArrayVal, MaxArrayLen)
    /\ arrayBefore = array
    /\ median = Nullish
    /\ textStandardDeviation = 0 /\ standardDeviationCap = 0
    /\ calls = 0 /\ thrown = ""
    /\ IdleLix /\ IdleFilter /\ IdlePipe /\ IdleSearch /\ IdleText
    /\ IdleTasks /\ IdleHandlers

\* getMedian sorts array.slice(), a copy: the caller's array stays as it is
GetMedian ==
    /\ calls = 0
    /\ median' = getMedian(array)
    /\ calls' = 1
    /\ UNCHANGED <<array, arrayBefore, textStandardDeviation, standardDeviationCap,
                   thrown, lixVars, filterVars, pipeVars, searchVars, textVars, taskVars, handlerVars>>

NextMedian == GetMedian

SpecMedian == InitMedian /\ [][NextMedian]_vars

(***************************************************************************)
(* utils.getMedianWithStandardDeviation (part_000:1-34), called on its own *)
(* with a whole number as textStandardDeviation.                           *)
(***************************************************************************)
MaxStdDev == 3
MaxStdDevCap == 2

\* The for loop of lines 10-26, from index i (0-based) on.  After a removal
\* and i-- the second test reads sortedArr[i] again; outside the array that is
\* undefined, and undefined <= x is false.
RECURSIVE RemovalLoop(_, _, _, _)
RemovalLoop(sortedArr, i, midVal, stdDev) ==
    IF i >= Len(sortedArr) THEN sortedArr
    ELSE LET high == sortedArr[i + 1] >= midVal + stdDev
             arr1 == IF high THEN Splice(sortedArr, i + 1) ELSE sortedArr
             i1 == IF high THEN i - 1 ELSE i
             low == /\ i1 >= 0 /\ i1 < Len(arr1)
                    /\ arr1[i1 + 1] <= midVal - stdDev
             arr2 == IF low THEN Splice(arr1, i1 + 1) ELSE arr1
             i2 == IF low THEN i1 - 1 ELSE i1
         IN  RemovalLoop(arr2, i2 + 1, midVal, stdDev)

\* lines 29-33, midIndex 0-based: of an empty array sortedArr[0] is undefined
MiddleOf(sortedArr, midIndex) ==
    IF Len(sortedArr) % 2 = 0 /\ Len(sortedArr) > 1
    THEN Fraction(sortedArr[midIndex] + sortedArr[midIndex + 1], 2)
    ELSE IF midIndex < Len(sortedArr) THEN <<sortedArr[midIndex + 1], 1>>
    ELSE Nullish

getMedianWithStandardDeviation_StaleMidIndex(arr, stdDev, cap) ==
    LET sortedArr == SortNumbers(arr)
        midIndex == Len(sortedArr) \div 2
    IN  IF Len(sortedArr) = 0 THEN [threw |-> TRUE, value |-> Nullish]
        ELSE IF stdDev > cap
        THEN [threw |-> FALSE,
              value |-> MiddleOf(RemovalLoop(sortedArr, 0, sortedArr[midIndex + 1], stdDev),
                                 midIndex)]
        ELSE [threw |-> FALSE, value |-> MiddleOf(sortedArr, midIndex)]

\* The result is [threw, value]: of an empty array midVal is undefined and
\* midVal.toPrecision (line 6) throws.
getMedianWithStandardDeviation(arr, stdDev, cap) ==
    LET sortedArr == SortNumbers(arr)
        midIndex == Len(sortedArr) \div 2
    IN  IF Len(sortedArr) = 0 THEN [threw |-> TRUE, value |-> Nullish]
        ELSE IF stdDev > cap
        THEN LET left == RemovalLoop(sortedArr, 0, sortedArr[midIndex + 1], stdDev)
             IN  [threw |-> FALSE, value |-> MiddleOf(left, Len(left) \div 2)]
        ELSE [threw |-> FALSE, value |-> MiddleOf(sortedArr, midIndex)]

InitMedianWithStandardDeviation ==
    /\ \E arr \in SeqsUpTo(0..MaxArrayVal, MaxArrayLen) : array = arr /\ arrayBefore = arr
    /\ median = Nullish
    /\ textStandardDeviation \in 0..MaxStdDev
    /\ standardDeviationCap \in 0..MaxStdDevCap
    /\ calls = 0 /\ thrown = ""
    /\ IdleLix /\ IdleFilter /\ IdlePipe /\ IdleSearch /\ IdleText
    /\ IdleTasks /\ IdleHandlers

GetMedianWithStandardDeviation ==
    /\ calls = 0
    /\ LET r == getMedianWithStandardDeviation(array, textStandardDeviation,
                                               standardDeviationCap)
       IN  /\ median' = r.value
           /\ thrown' = IF r.threw THEN "getMedianWithStandardDeviation" ELSE ""
    /\ calls' = 1
    /\ UNCHANGED <<array, arrayBefore, textStandardDeviation, standardDeviationCap,
                   lixVars, filterVars, pipeVars, searchVars, textVars, taskVars, handlerVars>>

NextMedianWithStandardDeviation == GetMedianWithStandardDeviation

SpecMedianWithStandardDeviation ==
    InitMedianWithStandardDeviation /\ [][NextMedianWithStandardDeviation]_vars

\* per-item LIX scores the filter is tried on: close ones and far ones
ScorePool == {1, 20, 25, 30, 40, 60}

\* the lists the filter is tried on: the item at index j is titled j
FilterInputs ==
    { [j \in 1..Len(sc) |-> [title |-> j, generated_lix |-> sc[j]]] :
        sc \in SeqsUpTo(ScorePool, MaxFilterLen) }

InitFilter ==
    /\ items \in FilterInputs
    /\ filtered = <<>>
    /\ refiltered = <<>>
    /\ calls = 0 /\ thrown = ""
    /\ IdleLix /\ IdleMedian /\ IdlePipe /\ IdleSearch /\ IdleText
    /\ IdleTasks /\ IdleHandlers

\* filterItemsUsingStandardDeviation(items, STANDARD_DEVIATION_FACTOR)
FilterItems ==
    /\ calls = 0
    /\ LET r == filterItemsUsingStandardDeviation(items, STANDARD_DEVIATION_FACTOR)
       IN  /\ filtered' = r.value
           /\ thrown' = IF r.threw THEN "filterItemsUsingStandardDeviation" ELSE ""
    /\ calls' = 1
    /\ UNCHANGED <<items, refiltered, lixVars, medianVars, pipeVars,
                   searchVars, textVars, taskVars, handlerVars>>

\* the same call on what the first call returned
FilterAgain ==
    /\ calls = 1
    /\ thrown = ""
    /\ refiltered' = filterItemsUsingStandardDeviation(filtered, STANDARD_DEVIATION_FACTOR).value
    /\ calls' = 2
    /\ UNCHANGED <<items, filtered, thrown, lixVars, medianVars, pipeVars,
                   searchVars, textVars, taskVars, handlerVars>>

NextFilter == FilterItems \/ FilterAgain

SpecFilter == InitFilter /\ [][NextFilter]_vars

(***************************************************************************)
(* Strings, where the code looks inside them, are sequences of characters  *)
(* (strings of length one) of the ASCII letters, digits and punctuation.   *)
(***************************************************************************)
LowerSeq ==
    <<"a", "b", "c", "d", "e", "f", "g", "h", "i", "j", "k", "l", "m", "n",
      "o", "p", "q", "r", "s", "t", "u", "v", "w", "x", "y", "z">>
UpperSeq ==
    <<"A", "B", "C", "D", "E", "F", "G", "H", "I", "J", "K", "L", "M", "N",
      "O", "P", "Q", "R", "S", "T", "U", "V", "W", "X", "Y", "Z">>
DigitSeq == <<"0", "1", "2", "3", "4", "5", "6", "7", "8", "9">>

LowerCase == {LowerSeq[i] : i \in 1..26}
UpperCase == {UpperSeq[i] : i \in 1..26}
Digits == {DigitSeq[i] : i \in 1..10}

\* the position of the letter c in the alphabet, whatever its case
LetterIndex(c) ==
    IF c \in LowerCase THEN CHOOSE i \in 1..26 : LowerSeq[i] = c
    ELSE CHOOSE i \in 1..26 : UpperSeq[i] = c

\* the number a digit stands for
DigitValue(c) == (CHOOSE i \in 1..10 : DigitSeq[i] = c) - 1

\* s[i], or "" past either end of s
At(s, i) == IF i \in 1..Len(s) THEN s[i] ELSE ""

\* the index after the run of digits of s that starts at index i
RECURSIVE DigitRunEnd(_, _)
DigitRunEnd(s, i) == IF At(s, i) \in Digits THEN DigitRunEnd(s, i + 1) ELSE i

\* the number the digits s[i], ..., s[end - 1] spell
RECURSIVE DigitRunValue(_, _, _)
DigitRunValue(s, i, end) ==
    IF i >= end THEN 0
    ELSE DigitRunValue(s, i, end - 1) * 10 + DigitValue(s[end - 1])

(***************************************************************************)
(* String.prototype.localeCompare(that, undefined, {numeric: true,         *)
(* sensitivity: 'base'}) on the characters of two titles (part_001:366-368,*)
(* part_000:465).  The strings are compared by the primary collation       *)
(* weights of their characters: a period before the digits, the digits     *)
(* before the letters, a letter by its place in the alphabet whatever its  *)
(* case; with numeric: true a run of digits counts as the number it spells.*)
(* The result is negative, zero or positive.                               *)
(***************************************************************************)
PrimaryWeight(c) ==
    IF c = "." THEN 0
    ELSE IF c \in Digits THEN 1 + DigitValue(c)
    ELSE 10 + LetterIndex(c)

\* the UTF-16 code unit of a character
CodeUnit(c) ==
    IF c = "." THEN 46
    ELSE IF c \in Digits THEN 48 + DigitValue(c)
    ELSE IF c \in UpperCase THEN 64 + LetterIndex(c)
    ELSE 96 + LetterIndex(c)

RECURSIVE localeCompare_CodeUnits(_, _, _, _)
localeCompare_CodeUnits(a, b, i, j) ==
    IF i > Len(a) /\ j > Len(b) THEN 0
    ELSE IF i > Len(a) THEN -1
    ELSE IF j > Len(b) THEN 1
    ELSE IF CodeUnit(a[i]) < CodeUnit(b[j]) THEN -1
    ELSE IF CodeUnit(a[i]) > CodeUnit(b[j]) THEN 1
    ELSE localeCompare_CodeUnits(a, b, i + 1, j + 1)

\* a from index i on, compared with b from index j on
RECURSIVE localeCompare(_, _, _, _)
localeCompare(a, b, i, j) ==
    IF i > Len(a) /\ j > Len(b) THEN 0
    ELSE IF i > Len(a) THEN -1
    ELSE IF j > Len(b) THEN 1
    ELSE IF a[i] \in Digits /\ b[j] \in Digits
    THEN LET aEnd == DigitRunEnd(a, i)
             bEnd == DigitRunEnd(b, j)
             aValue == DigitRunValue(a, i, aEnd)
             bValue == DigitRunValue(b, j, bEnd)
         IN  IF aValue < bValue THEN -1
             ELSE IF aValue > bValue THEN 1
             ELSE localeCompare(a, b, aEnd, bEnd)
    ELSE IF PrimaryWeight(a[i]) < PrimaryWeight(b[j]) THEN -1
    ELSE IF PrimaryWeight(a[i]) > PrimaryWeight(b[j]) THEN 1
    ELSE localeCompare(a, b, i + 1, j + 1)

(***************************************************************************)
(* analyzeEpub.  The repository holds two copies of the pipeline:          *)
(* part_001:41-112 (the one the cloud functions call) and part_000:188-259 *)
(* (the stand-alone one).  They differ in the lix they resolve and in what *)
(* a text without a word does; `variant` says which copy runs.             *)
(*                                                                         *)
(* The text of a document is carried as what the code reads off it: the    *)
(* number of words, long words and sentences its tokenization yields, and  *)
(* the value searchForLixInText finds in it.  A path is a string; the      *)
(* outcome of each pattern test on it is tabulated.                        *)
(***************************************************************************)
\* the number n, as a fraction
Num(n) == <<n, 1>>

\* the text '': of a document without text, and of an item whose extraction failed
EmptyText == [empty |-> TRUE, words |-> 0, long_words |-> 0, sentences |-> 0, lix |-> Nullish]

\* Non-empty texts.  A trimmed non-empty text always splits into at least one
\* non-blank sentence fragment, so sentences >= 1.
TextPool ==
    { [empty |-> FALSE, words |-> 40, long_words |-> 8, sentences |-> 4, lix |-> Nullish],
      [empty |-> FALSE, words |-> 100, long_words |-> 5, sentences |-> 5, lix |-> Nullish],
      [empty |-> FALSE, words |-> 30, long_words |-> 3, sentences |-> 3, lix |-> Num(42)],
      [empty |-> FALSE, words |-> 20, long_words |-> 10, sentences |-> 2, lix |-> Num(0)],
      [empty |-> FALSE, words |-> 0, long_words |-> 0, sentences |-> 1, lix |-> Nullish],
      [empty |-> FALSE, words |-> 1, long_words |-> 0, sentences |-> 3, lix |-> Nullish] }

\* the hrefs of the content documents a manifest may declare
HrefPool ==
    { "chapter1.xhtml", "Chapter2.xhtml", "chapter10.xhtml", "kolofon.xhtml",
      "intro.xhtml" }

\* the orders the manifest may declare them in
ManifestOrders ==
    { <<"intro.xhtml", "chapter10.xhtml", "kolofon.xhtml", "Chapter2.xhtml",
        "chapter1.xhtml">>,
      <<"chapter1.xhtml", "Chapter2.xhtml", "chapter10.xhtml", "intro.xhtml",
        "kolofon.xhtml">> }

\* path.dirname of the path of the package document
dirname(path) == IF path = "OEBPS/content.opf" THEN "OEBPS" ELSE "."

\* the hrefs that hold one of the two words of COLOPHON_REGEX
ColophonHrefs == {"kolofon.xhtml", "colophon.xhtml"}

\* path.basename of the path of a content document
basename(path) ==
    CHOOSE href \in HrefPool \cup ColophonHrefs : path \in {href, "OEBPS/" \o href}

\* CHAPTER_REGEX = /chapter|kapitel/i, tested on the path: neither "OEBPS/" nor
\* another href of the pool holds one of the two words
CHAPTER_REGEX_test(path) ==
    basename(path) \in {"chapter1.xhtml", "Chapter2.xhtml", "chapter10.xhtml"}

\* COLOPHON_REGEX = /colophon|kolofon/i, tested on the path
COLOPHON_REGEX_test(path) == basename(path) \in ColophonHrefs

\* the characters of a title
Chars(title) ==
    CASE title = "chapter1.xhtml" ->
            <<"c", "h", "a", "p", "t", "e", "r", "1", ".", "x", "h", "t",
              "m", "l">>
      [] title = "Chapter2.xhtml" ->
            <<"C", "h", "a", "p", "t", "e", "r", "2", ".", "x", "h", "t",
              "m", "l">>
      [] title = "chapter10.xhtml" ->
            <<"c", "h", "a", "p", "t", "e", "r", "1", "0", ".", "x", "h",
              "t", "m", "l">>
      [] title = "kolofon.xhtml" ->
            <<"k", "o", "l", "o", "f", "o", "n", ".", "x", "h", "t", "m",
              "l">>
      [] title = "intro.xhtml" ->
            <<"i", "n", "t", "r", "o", ".", "x", "h", "t", "m", "l">>

\* for each title, the number of titles that compare before it
TitleRank ==
    [title \in HrefPool |->
        Cardinality({other \in HrefPool :
                        localeCompare(Chars(other), Chars(title), 1, 1) < 0})]

\* sort((a, b) => a.title.localeCompare(b.title, ...)): ascending by that
\* number, titles that compare equal keeping their order
SortByTitle(arr) == SortByKey(arr, [j \in 1..Len(arr) |-> TitleRank[arr[j].title]])

\* the manifest of a package document: a style sheet, the content documents
\* (media type application/xhtml+xml) in the order given, and the NCX
ManifestOf(hrefs) ==
    <<[href |-> "style.css", media_type |-> "text/css"]>>
    \o [j \in 1..Len(hrefs) |-> [href |-> hrefs[j], media_type |-> "application/xhtml+xml"]]
    \o <<[href |-> "toc.ncx", media_type |-> "application/x-dtbncx+xml"]>>

\* loadZip (part_001:119-138, part_000:267-278): throws unless the mimetype entry
\* reads application/epub+zip ("" stands for an archive without the entry)
loadZip(cont) == [threw |-> cont.mimetype # "application/epub+zip"]

\* findOpfPath (part_001:145-162, part_000:285-297): the full-path of the first
\* rootfile of META-INF/container.xml; throws when there is no container.xml
\* (rootfile = "")
findOpfPath(cont) == [threw |-> cont.rootfile = "", value |-> cont.rootfile]

\* loadOpfJson (part_001:170-184, part_000:305-315): throws when the archive has
\* no entry at the path of the package document
loadOpfJson(cont) == [threw |-> ~cont.opf]

\* extractItemPathsFromManifest (part_001:192-216, part_000:323-339).  A manifest
\* element without a child has no item property and the .filter on undefined
\* throws; the array filter and map return is never falsy, so the test of line
\* 204 never throws.
extractItemPathsFromManifest(man, opfRoot) ==
    LET htmlItems == SelectSeq(man, LAMBDA item : item.media_type = "application/xhtml+xml")
        htmlItemPaths ==
            [j \in 1..Len(htmlItems) |->
                IF Len(opfRoot) > 1 THEN opfRoot \o "/" \o htmlItems[j].href
                ELSE htmlItems[j].href]
    IN  [threw |-> Len(man) = 0, value |-> htmlItemPaths]

\* getHtmlDocument (part_001:611-644): the markup is parsed as
\* application/xhtml+xml and, if that throws, as text/html; if that throws too
\* the function throws.  The content of an entry is "xhtml" (parses as either),
\* "html" (parses as text/html only) or "garbage" (parses as neither).
getHtmlDocument(htmlContent) ==
    IF htmlContent = "xhtml" THEN [threw |-> FALSE, contentType |-> "application/xhtml+xml"]
    ELSE IF htmlContent = "html" THEN [threw |-> FALSE, contentType |-> "text/html"]
    ELSE [threw |-> TRUE, contentType |-> ""]

\* zip.file(spineItemPath): the entry the archive holds at that path, the entries
\* lying next to the package document
ZipFile(zip, opfRoot, spineItemPath) ==
    LET at == SelectSeq(zip, LAMBDA z :
                  spineItemPath = (IF Len(opfRoot) > 1 THEN opfRoot \o "/" \o z.href
                                   ELSE z.href))
    IN  at[1]

\* The async callback of extractItemsFromSpine for one path (part_001:229-287):
\* an entry that is "missing" or "empty" gives htmlContent = '' and the throw of
\* line 235, markup that does not parse the throw of getHtmlDocument; the catch
\* of line 279 turns either into an item with the text ''.
SpineItemOf(zip, opfRoot, spineItemPath) ==
    LET file == ZipFile(zip, opfRoot, spineItemPath)
        htmlContent == IF file.entry \in {"missing", "empty"} THEN "" ELSE file.entry
    IN  IF htmlContent = "" \/ getHtmlDocument(htmlContent).threw
        THEN [path |-> spineItemPath, text |-> EmptyText]
        ELSE [path |-> spineItemPath, text |-> file.text]

extractItemsFromSpine_FailingTogether(paths, zip, opfRoot) ==
    LET results == [j \in 1..Len(paths) |-> SpineItemOf(zip, opfRoot, paths[j])]
        kept == SelectSeq(results, LAMBDA item : ~item.text.empty)
    IN  [threw |-> Len(kept) < Len(paths), value |-> kept]

extractItemsFromSpine_EmptyAllowed(paths, zip, opfRoot) ==
    LET results == [j \in 1..Len(paths) |-> SpineItemOf(zip, opfRoot, paths[j])]
    IN  [threw |-> FALSE, value |-> SelectSeq(results, LAMBDA item : ~item.text.empty)]

\* extractItemsFromSpine (part_001:224-298, part_000:347-407): one SpineItem per
\* path, in the order of the paths (Promise.all), those with an empty text
\* dropped; throws when none is left
extractItemsFromSpine(paths, zip, opfRoot) ==
    LET results == [j \in 1..Len(paths) |-> SpineItemOf(zip, opfRoot, paths[j])]
        kept == SelectSeq(results, LAMBDA item : ~item.text.empty)
    IN  [threw |-> Len(kept) = 0, value |-> kept]

\* extractContentFromText (part_001:415-459) and getContentFromText
\* (part_000:506-549): the arrays of words, long words and sentences, carried
\* as their lengths.  In part_000 text.match(wordRegex) is null for a text
\* without a word and the .filter on it throws.
extractContentFromText(text, copy) ==
    [threw |-> copy = "part_000" /\ text.words = 0,
     words |-> text.words, long_words |-> text.long_words, sentences |-> text.sentences]

\* the async callback of spineItemContentPromises, for one item
ScoreItem(item, copy) ==
    LET content == extractContentFromText(item.text, copy)
    IN  [threw |-> content.threw,
         title |-> basename(item.path),
         generated_lix |-> calculateLixFromStats(
             [word_count |-> content.words, long_word_count |-> content.long_words,
              sentence_count |-> content.sentences]),
         words |-> content.words, long_words |-> content.long_words,
         sentences |-> content.sentences]

TruthyScores_KeepingAll(content) == content

\* spineItemContent.filter((item) => item.generated_lix)
TruthyScores(content) == SelectSeq(content, LAMBDA item : Truthy(item.generated_lix))

\* the map of lines 358-365: the arrays replaced by their lengths
ToStats(item) ==
    [title |-> item.title, generated_lix |-> item.generated_lix,
     word_count |-> item.words, long_word_count |-> item.long_words,
     sentence_count |-> item.sentences]

getSpineItemStats_AllItems(sItems, copy) ==
    LET content == [j \in 1..Len(sItems) |-> ScoreItem(sItems[j], copy)]
        filteredSpineItemContent == TruthyScores(content)
        filteredSpineItems ==
            filterItemsUsingStandardDeviation(filteredSpineItemContent,
                                              STANDARD_DEVIATION_FACTOR)
    IN  IF \E j \in 1..Len(content) : content[j].threw
        THEN [threw |-> TRUE, content |-> <<>>, input |-> <<>>, value |-> <<>>]
        ELSE IF filteredSpineItems.threw
        THEN [threw |-> TRUE, content |-> content, input |-> filteredSpineItemContent,
              value |-> <<>>]
        ELSE [threw |-> FALSE, content |-> content, input |-> filteredSpineItemContent,
              value |-> SortByTitle([j \in 1..Len(filteredSpineItems.value) |->
                                        ToStats(filteredSpineItems.value[j])])]

\* getSpineItemStats (part_001:305-373, part_000:409-468).  The result is
\* [threw, content, input, value]: content the scored items, input the list
\* handed to the outlier filter, value the SpineItemStats returned.
getSpineItemStats(sItems, copy) ==
    LET chapters == SelectSeq(sItems, LAMBDA item : CHAPTER_REGEX_test(item.path))
        contentItems == IF Len(chapters) > 0 THEN chapters ELSE sItems
        content == [j \in 1..Len(contentItems) |-> ScoreItem(contentItems[j], copy)]
        filteredSpineItemContent == TruthyScores(content)
        filteredSpineItems ==
            filterItemsUsingStandardDeviation(filteredSpineItemContent,
                                              STANDARD_DEVIATION_FACTOR)
    IN  IF \E j \in 1..Len(content) : content[j].threw
        THEN [threw |-> TRUE, content |-> <<>>, input |-> <<>>, value |-> <<>>]
        ELSE IF filteredSpineItems.threw
        THEN [threw |-> TRUE, content |-> content, input |-> filteredSpineItemContent,
              value |-> <<>>]
        ELSE [threw |-> FALSE, content |-> content, input |-> filteredSpineItemContent,
              value |-> SortByTitle([j \in 1..Len(filteredSpineItems.value) |->
                                        ToStats(filteredSpineItems.value[j])])]

\* searchForLixInText (part_001:466-488), read off the text
searchForLixInText(text) == text.lix

FoundTruthy_ZeroCounts(result) == result # Nullish

\* if (result): a number other than 0
FoundTruthy(result) == result # Nullish /\ result # Num(0)

\* searchForLixInItems (part_001:375-408, part_000:470-499)
searchForLixInItems(sItems) ==
    LET colophons == SelectSeq(sItems, LAMBDA item : COLOPHON_REGEX_test(item.path))
        hits == SelectSeq(sItems, LAMBDA item : FoundTruthy(searchForLixInText(item.text)))
    IN  IF Len(colophons) > 0 /\ FoundTruthy(searchForLixInText(colophons[1].text))
        THEN searchForLixInText(colophons[1].text)
        ELSE IF Len(hits) > 0 THEN searchForLixInText(hits[1].text)
        ELSE Nullish

getTotalStats_FromSecond(its) ==
    LET rest == IF Len(its) = 0 THEN its ELSE Tail(its)
    IN  [word_count |-> SumSeq([j \in 1..Len(rest) |-> rest[j].word_count]),
         long_word_count |-> SumSeq([j \in 1..Len(rest) |-> rest[j].long_word_count]),
         sentence_count |-> SumSeq([j \in 1..Len(rest) |-> rest[j].sentence_count])]

\* getTotalStats (part_001:697-710, part_000:760-772): reduce from zeros
getTotalStats(its) ==
    LET acc[j \in 0..Len(its)] ==
            IF j = 0 THEN [word_count |-> 0, long_word_count |-> 0, sentence_count |-> 0]
            ELSE [word_count |-> acc[j - 1].word_count + its[j].word_count,
                  long_word_count |-> acc[j - 1].long_word_count + its[j].long_word_count,
                  sentence_count |-> acc[j - 1].sentence_count + its[j].sentence_count]
    IN  acc[Len(its)]

ResolveLix_GeneratedBeforeMedian(copy, lixFound, lixMedian, lixGenerated) ==
    Coalesce(lixFound, lixGenerated)

\* part_001:85  lix: lixFound ?? lixMedian ?? lixGenerated
\* part_000:230 lix: foundLix ?? generatedLix
ResolveLix(copy, lixFound, lixMedian, lixGenerated) ==
    IF copy = "part_001"
    THEN Coalesce(Coalesce(lixFound, lixMedian), lixGenerated)
    ELSE Coalesce(lixFound, lixGenerated)

BuildAnalysis_GeneratedFromScores(copy, sItems, sStats) ==
    LET totalStats == getTotalStats(sStats)
        lixMedian == getMedian(LixOf(sStats))
        lixGenerated == lixMedian
        lixFound == searchForLixInItems(sItems)
    IN  [lix |-> ResolveLix(copy, lixFound, lixMedian, lixGenerated),
         stats |-> [lix_found |-> lixFound,
                    lix_median |-> IF copy = "part_001" THEN lixMedian ELSE Nullish,
                    lix_generated |-> lixGenerated,
                    word_count |-> totalStats.word_count,
                    long_word_count |-> totalStats.long_word_count,
                    sentence_count |-> totalStats.sentence_count],
         items |-> sStats]

\* The Analysis of lines 83-95 (part_000:228-238), without file_bytes, the
\* byte length of the archive.  The part_000 record has no lix_median.
BuildAnalysis(copy, sItems, sStats) ==
    LET totalStats == getTotalStats(sStats)
        lixMedian == getMedian(LixOf(sStats))
        lixGenerated == Num(calculateLixFromStats(totalStats))
        lixFound == searchForLixInItems(sItems)
    IN  [lix |-> ResolveLix(copy, lixFound, lixMedian, lixGenerated),
         stats |-> [lix_found |-> lixFound,
                    lix_median |-> IF copy = "part_001" THEN lixMedian ELSE Nullish,
                    lix_generated |-> lixGenerated,
                    word_count |-> totalStats.word_count,
                    long_word_count |-> totalStats.long_word_count,
                    sentence_count |-> totalStats.sentence_count],
         items |-> sStats]

\* the hrefs of the content documents of an EPUB, in manifest order
SpineHrefInputs ==
    { SelectSeq(order, LAMBDA href : href \in chosen) :
        order \in ManifestOrders,
        chosen \in {S \in SUBSET HrefPool : Cardinality(S) <= MaxSpineItems} }

\* a well-formed container, its package document in a folder
ValidContainer ==
    [mimetype |-> "application/epub+zip", rootfile |-> "OEBPS/content.opf", opf |-> TRUE]

\* that one; one with the package document at the top of the archive; one
\* without a mimetype entry, one with another mimetype, one without
\* container.xml and one without the package document
ContainerInputs ==
    { ValidContainer,
      [mimetype |-> "application/epub+zip", rootfile |-> "content.opf", opf |-> TRUE],
      [mimetype |-> "", rootfile |-> "OEBPS/content.opf", opf |-> TRUE],
      [mimetype |-> "application/zip", rootfile |-> "OEBPS/content.opf", opf |-> TRUE],
      [mimetype |-> "application/epub+zip", rootfile |-> "", opf |-> TRUE],
      [mimetype |-> "application/epub+zip", rootfile |-> "OEBPS/content.opf", opf |-> FALSE] }

\* The state analyzeEpub starts in, for an archive with these entries behind
\* the declared hrefs.  A manifest without a child is tried with no content
\* document, the containers other than the well-formed one with at most one.
Start(hrefs, entries) ==
    /\ zipItems = [j \in 1..Len(hrefs) |->
                      [href |-> hrefs[j], entry |-> entries[j].entry, text |-> entries[j].text]]
    /\ manifest \in (IF Len(hrefs) = 0 THEN {<<>>, ManifestOf(hrefs)} ELSE {ManifestOf(hrefs)})
    /\ container \in (IF Len(hrefs) <= 1 THEN ContainerInputs ELSE {ValidContainer})
    /\ variant \in {"part_000", "part_001"}
    /\ opfPath = ""
    /\ spineItemPaths = <<>>
    /\ spineItems = <<>>
    /\ spineItemContent = <<>>
    /\ filterInput = <<>>
    /\ spineItemStats = <<>>
    /\ lixValues = <<>>
    /\ analysis = Nullish
    /\ pc = "loadZip"
    /\ calls = 0 /\ thrown = ""
    /\ IdleLix /\ IdleMedian /\ IdleFilter /\ IdleSearch /\ IdleText
    /\ IdleTasks /\ IdleHandlers

\* every content document is well-formed markup, with a text of the pool or
\* without text
Init ==
    \E hrefs \in SpineHrefInputs :
        \E entries \in [1..Len(hrefs) ->
                           [entry : {"xhtml"}, text : TextPool \cup {EmptyText}]] :
            Start(hrefs, entries)

\* line 45: const zip = await loadZip(filePath)
LoadZip ==
    /\ pc = "loadZip"
    /\ LET r == loadZip(container)
       IN  /\ thrown' = IF r.threw THEN "loadZip" ELSE ""
           /\ pc' = IF r.threw THEN "failed" ELSE "findOpfPath"
    /\ UNCHANGED <<variant, container, manifest, zipItems, opfPath, spineItemPaths,
                   spineItems, spineItemContent, filterInput, spineItemStats,
                   lixValues, analysis, calls, lixVars, medianVars, filterVars,
                   searchVars, textVars, taskVars, handlerVars>>

\* line 48: const opfPath = await findOpfPath(zip)
FindOpfPath ==
    /\ pc = "findOpfPath"
    /\ LET r == findOpfPath(container)
       IN  /\ opfPath' = IF r.threw THEN "" ELSE r.value
           /\ thrown' = IF r.threw THEN "findOpfPath" ELSE ""
           /\ pc' = IF r.threw THEN "failed" ELSE "loadOpfJson"
    /\ UNCHANGED <<variant, container, manifest, zipItems, spineItemPaths,
                   spineItems, spineItemContent, filterInput, spineItemStats,
                   lixValues, analysis, calls, lixVars, medianVars, filterVars,
                   searchVars, textVars, taskVars, handlerVars>>

\* line 53: const opfJson = await loadOpfJson(opfPath, zip)
LoadOpfJson ==
    /\ pc = "loadOpfJson"
    /\ LET r == loadOpfJson(container)
       IN  /\ thrown' = IF r.threw THEN "loadOpfJson" ELSE ""
           /\ pc' = IF r.threw THEN "failed" ELSE "extractItemPathsFromManifest"
    /\ UNCHANGED <<variant, container, manifest, zipItems, opfPath, spineItemPaths,
                   spineItems, spineItemContent, filterInput, spineItemStats,
                   lixValues, analysis, calls, lixVars, medianVars, filterVars,
                   searchVars, textVars, taskVars, handlerVars>>

\* lines 56-60: const opfRoot = path.dirname(opfPath);
\* const spineItemPaths = extractItemPathsFromManifest(opfJson, opfRoot)
ExtractItemPathsFromManifest ==
    /\ pc = "extractItemPathsFromManifest"
    /\ LET r == extractItemPathsFromManifest(manifest, dirname(opfPath))
       IN  /\ spineItemPaths' = r.value
           /\ thrown' = IF r.threw THEN "extractItemPathsFromManifest" ELSE ""
           /\ pc' = IF r.threw THEN "failed" ELSE "extractItemsFromSpine"
    /\ UNCHANGED <<variant, container, manifest, zipItems, opfPath,
                   spineItems, spineItemContent, filterInput, spineItemStats,
                   lixValues, analysis, calls, lixVars, medianVars, filterVars,
                   searchVars, textVars, taskVars, handlerVars>>

\* line 64: const spineItems = await extractItemsFromSpine(spineItemPaths, zip)
ExtractItemsFromSpine ==
    /\ pc = "extractItemsFromSpine"
    /\ LET r == extractItemsFromSpine(spineItemPaths, zipItems, dirname(opfPath))
       IN  /\ spineItems' = r.value
           /\ thrown' = IF r.threw THEN "extractItemsFromSpine" ELSE ""
           /\ pc' = IF r.threw THEN "failed" ELSE "getSpineItemStats"
    /\ UNCHANGED <<variant, container, manifest, zipItems, opfPath, spineItemPaths,
                   spineItemContent, filterInput, spineItemStats,
                   lixValues, analysis, calls, lixVars, medianVars, filterVars,
                   searchVars, textVars, taskVars, handlerVars>>

\* line 67: const spineItemStats = await getSpineItemStats(spineItems)
GetSpineItemStats ==
    /\ pc = "getSpineItemStats"
    /\ LET r == getSpineItemStats(spineItems, variant)
       IN  /\ spineItemContent' = r.content
           /\ filterInput' = r.input
           /\ spineItemStats' = r.value
           /\ thrown' = IF r.threw THEN "getSpineItemStats" ELSE ""
           /\ pc' = IF r.threw THEN "failed" ELSE "aggregate"
    /\ UNCHANGED <<variant, container, manifest, zipItems, opfPath, spineItemPaths,
                   spineItems, lixValues, analysis, calls,
                   lixVars, medianVars, filterVars,
                   searchVars, textVars, taskVars, handlerVars>>

\* lines 69-106: the totals, the median and the mean of the scores, the
\* generated and the found LIX, and the Analysis returned
Aggregate ==
    /\ pc = "aggregate"
    /\ lixValues' = LixOf(spineItemStats)
    /\ analysis' = BuildAnalysis(variant, spineItems, spineItemStats)
    /\ pc' = "done"
    /\ UNCHANGED <<variant, container, manifest, zipItems, opfPath, spineItemPaths,
                   spineItems, spineItemContent, filterInput,
                   spineItemStats, thrown, calls, lixVars, medianVars, filterVars,
                   searchVars, textVars, taskVars, handlerVars>>

Next ==
    \/ LoadZip
    \/ FindOpfPath
    \/ LoadOpfJson
    \/ ExtractItemPathsFromManifest
    \/ ExtractItemsFromSpine
    \/ GetSpineItemStats
    \/ Aggregate

Spec == Init /\ [][Next]_vars

(***************************************************************************)
(* analyzeEpub on archives whose content entries may be missing, empty or  *)
(* unparseable: the same steps, other EPUBs.                               *)
(***************************************************************************)
\* what may lie behind a declared href: no entry; an empty entry; markup that
\* parses in neither mode; markup that parses as text/html only; well-formed
\* markup with a text that scores 30, with a text without a word, with a text
\* that scores 0, and without text
EntryPool ==
    { [entry |-> "missing", text |-> EmptyText],
      [entry |-> "empty", text |-> EmptyText],
      [entry |-> "garbage", text |-> EmptyText],
      [entry |-> "html",
       text |-> [empty |-> FALSE, words |-> 40, long_words |-> 8, sentences |-> 4,
                 lix |-> Nullish]],
      [entry |-> "xhtml",
       text |-> [empty |-> FALSE, words |-> 40, long_words |-> 8, sentences |-> 4,
                 lix |-> Nullish]],
      [entry |-> "xhtml",
       text |-> [empty |-> FALSE, words |-> 0, long_words |-> 0, sentences |-> 1,
                 lix |-> Nullish]],
      [entry |-> "xhtml",
       text |-> [empty |-> FALSE, words |-> 1, long_words |-> 0, sentences |-> 3,
                 lix |-> Nullish]],
      [entry |-> "xhtml", text |-> EmptyText] }

\* the hrefs in one manifest order
InitFailures ==
    \E hrefs \in {h \in SpineHrefInputs :
                    \A j \in 1..Len(h), k \in 1..Len(h) :
                        j < k => TitleRank[h[j]] < TitleRank[h[k]]} :
        \E entries \in [1..Len(hrefs) -> EntryPool] :
            Start(hrefs, entries)

SpecFailures == InitFailures /\ [][Next]_vars

(***************************************************************************)
(* The claims.                                                             *)
(***************************************************************************)
Range(s) == {s[j] : j \in 1..Len(s)}

\* the sequence in reverse order
Reverse(s) == [j \in 1..Len(s) |-> s[Len(s) + 1 - j]]

\* the k-th smallest number of a non-empty sequence (k in 1..Len(s)), by counting
KthSmallest(s, k) ==
    CHOOSE v \in Range(s) :
        /\ Cardinality({j \in 1..Len(s) : s[j] < v}) < k
        /\ Cardinality({j \in 1..Len(s) : s[j] <= v}) >= k

\* C2: for word_count > 0 and sentence_count > 0 calculateLixFromStats returns
\* word_count / sentence_count + long_word_count * 100 / word_count rounded to the
\* nearest whole number (a whole number at most one half away from the exact
\* value); words = 40, long words = 8, sentences = 4 give 30.
C2_LixIsRoundedFormula ==
    (calls = 1 /\ stats.word_count > 0 /\ stats.sentence_count > 0) =>
        LET exactNum == stats.word_count * stats.word_count
                        + stats.long_word_count * 100 * stats.sentence_count
            exactDen == stats.word_count * stats.sentence_count
        IN  /\ lix \in Nat
            /\ 2 * (lix * exactDen - exactNum) <= exactDen
            /\ 2 * (exactNum - lix * exactDen) <= exactDen
            /\ (stats = [word_count |-> 40, long_word_count |-> 8, sentence_count |-> 4]
                    => lix = 30)

C2_Witness ==
    /\ calls = 1
    /\ stats = [word_count |-> 40, long_word_count |-> 8, sentence_count |-> 4]
    /\ lix = 30

\* the item lies outside centre +- stdDev of the scores sc, strictly
Outside(it, centre, sc) ==
    \/ AboveUpperBound(it.generated_lix, centre, getVariance(sc))
    \/ BelowLowerBound(it.generated_lix, centre, getVariance(sc))

\* the centre the code uses: the element at index floor(n / 2) (0-based) of the
\* ascending scores, that is the (floor(n / 2) + 1)-th smallest score
UpperMiddle(sc) == KthSmallest(sc, (Len(sc) \div 2) + 1)

\* C4: when the population standard deviation of the scores of a non-empty list
\* exceeds the cap, filterItemsUsingStandardDeviation removes every item whose
\* score is strictly above centre + stdDev or strictly below centre - stdDev and
\* keeps every other item, the centre being the upper middle score: the in-place
\* removal loop skips no item that qualifies.
C4_RemovesExactlyTheOutliers ==
    (calls >= 1 /\ items # <<>>
        /\ StdDevGreater(getVariance(LixOf(items)), STANDARD_DEVIATION_FACTOR)) =>
        LET sc == LixOf(items)
            kept == {it \in Range(items) : ~Outside(it, UpperMiddle(sc), sc)}
        IN  /\ thrown = ""
            /\ Range(filtered) = kept
            /\ Len(filtered) = Cardinality(kept)

C4_Witness ==
    /\ calls >= 1
    /\ Len(items) = 4
    /\ StdDevGreater(getVariance(LixOf(items)), STANDARD_DEVIATION_FACTOR)
    /\ Len(filtered) = 1
    /\ \E a \in Range(items), b \in Range(items) :
        /\ a.generated_lix = b.generated_lix
        /\ a # b
        /\ BelowLowerBound(a.generated_lix, UpperMiddle(LixOf(items)),
                           getVariance(LixOf(items)))
    /\ \E c \in Range(items) :
        AboveUpperBound(c.generated_lix, UpperMiddle(LixOf(items)),
                        getVariance(LixOf(items)))

\* C5: the centre of the removal bounds is the median of the scores as getMedian
\* defines it (for an even number of scores the average of the two middle ones).
C5_CentreIsMedian ==
    (calls >= 1 /\ items # <<>>) =>
        <<MidValue(SortByLix(items)), 1>> = getMedian(LixOf(items))

\* C6: when the population standard deviation of the scores of a non-empty list
\* does not exceed the cap, filterItemsUsingStandardDeviation returns every item
\* of the list, none removed, in ascending order of score (items of equal score in
\* their input order).
C6_NoOpWithinCap ==
    (calls >= 1 /\ items # <<>>
        /\ ~StdDevGreater(getVariance(LixOf(items)), STANDARD_DEVIATION_FACTOR)) =>
        /\ thrown = ""
        /\ Len(filtered) = Len(items)
        /\ Range(filtered) = Range(items)
        /\ \A j \in 1..Len(filtered), k \in 1..Len(filtered) :
            j < k =>
                \/ filtered[j].generated_lix < filtered[k].generated_lix
                \/ /\ filtered[j].generated_lix = filtered[k].generated_lix
                   /\ filtered[j].title < filtered[k].title

C6_Witness ==
    /\ calls >= 1
    /\ Len(items) = 3
    /\ ~StdDevGreater(getVariance(LixOf(items)), STANDARD_DEVIATION_FACTOR)
    /\ \E it \in Range(items) : Outside(it, UpperMiddle(LixOf(items)), LixOf(items))
    /\ filtered # items
    /\ Len(filtered) = 3

\* C7: a second call of filterItemsUsingStandardDeviation, on what the first call
\* returned, returns that same list whenever the standard deviation of the scores
\* the first call returned does not exceed the cap.
C7_SecondCallChangesNothing ==
    (calls = 2
        /\ ~StdDevGreater(getVariance(LixOf(filtered)), STANDARD_DEVIATION_FACTOR)) =>
        refiltered = filtered

C7_Witness ==
    /\ calls = 2
    /\ Len(filtered) < Len(items)
    /\ Len(filtered) >= 2
    /\ LixOf(filtered)[1] # LixOf(filtered)[Len(filtered)]
    /\ ~StdDevGreater(getVariance(LixOf(filtered)), STANDARD_DEVIATION_FACTOR)
    /\ refiltered = filtered

\* C8: of a non-empty array getMedian returns the middle value in ascending order
\* when the length is odd and the average of the two middle values when it is
\* even; the reversed array gives the same value; the caller's array is left as it
\* was.
C8_MedianOfSortedMiddle ==
    (calls = 1 /\ arrayBefore # <<>>) =>
        LET n == Len(arrayBefore)
            k == n \div 2
        IN  /\ (n % 2 = 1 => median = <<KthSmallest(arrayBefore, k + 1), 1>>)
            /\ (n % 2 = 0 => median = Fraction(KthSmallest(arrayBefore, k)
                                               + KthSmallest(arrayBefore, k + 1), 2))
            /\ getMedian(Reverse(arrayBefore)) = median
            /\ array = arrayBefore

C8_Witness ==
    /\ calls = 1
    /\ array = <<4, 1, 2, 0>>
    /\ median = <<3, 2>>

\* the first of found, median of the listed items' scores and generated that is
\* not null
FoundElseMedianElseGenerated(a) ==
    LET found == a.stats.lix_found
        med == getMedian(LixOf(a.items))
    IN  /\ (found # Nullish => a.lix = found)
        /\ (found = Nullish /\ med # Nullish => a.lix = med)
        /\ (found = Nullish /\ med = Nullish => a.lix = a.stats.lix_generated)

Titles(its) == {its[j].title : j \in 1..Len(its)}

\* C3: an item whose text has no sentence or no word has an undefined score and is
\* excluded before the outlier filter and before aggregation: it is not in the
\* list handed to the filter, not in the items of the Analysis, and the totals
\* and the scores the median is taken of are those of the listed items alone.
C3_UndefinedScoresExcluded ==
    pc \in {"aggregate", "done"} =>
        LET undefinedScore ==
                {c \in Range(spineItemContent) : c.words = 0 \/ c.sentences = 0}
        IN  /\ \A c \in undefinedScore :
                /\ ~Truthy(c.generated_lix)
                /\ c.title \notin Titles(filterInput)
                /\ c.title \notin Titles(spineItemStats)
            /\ pc = "done" =>
                LET listed == {c \in Range(spineItemContent) : c.title \in Titles(analysis.items)}
                    Total(F(_)) ==
                        LET RECURSIVE Sum(_)
                            Sum(S) == IF S = {} THEN 0
                                      ELSE LET c == CHOOSE x \in S : TRUE
                                           IN  F(c) + Sum(S \ {c})
                        IN  Sum(listed)
                IN  /\ Titles(analysis.items) \cap {c.title : c \in undefinedScore} = {}
                    /\ analysis.stats.word_count = Total(LAMBDA c : c.words)
                    /\ analysis.stats.long_word_count = Total(LAMBDA c : c.long_words)
                    /\ analysis.stats.sentence_count = Total(LAMBDA c : c.sentences)
                    /\ Len(lixValues) = Cardinality(listed)
                    /\ \A j \in 1..Len(lixValues) : lixValues[j] \in Nat \ {0}

C3_Witness ==
    /\ pc = "done"
    /\ Len(spineItemContent) = 3
    /\ \E c \in Range(spineItemContent) : c.words = 0 /\ c.sentences = 1
    /\ Len(analysis.items) = 2
    /\ analysis.stats.sentence_count = 9

\* C9: analyzeEpub never takes the median of an empty list of scores: whenever
\* the getMedian call is reached the list of surviving scores is non-empty, and
\* a run whose scored items all fail the truthiness filter has failed in
\* getSpineItemStats.
C9_MedianNeverOfEmptyList ==
    /\ pc = "aggregate" => spineItemStats # <<>>
    /\ pc = "done" => lixValues # <<>> /\ getMedian(lixValues) # Nullish
    /\ (pc \in {"aggregate", "done"} /\ filterInput = <<>>) => FALSE
    /\ (pc = "failed" /\ thrown = "getSpineItemStats") => lixValues = <<>>

C9_Witness ==
    /\ pc = "failed"
    /\ variant = "part_001"
    /\ thrown = "getSpineItemStats"
    /\ Len(spineItemContent) = 2
    /\ filterInput = <<>>
    /\ lixValues = <<>>

\* C10: in every returned Analysis the word, long-word and sentence totals are the
\* sums of those counts over exactly the items the Analysis lists, which are the
\* items getSpineItemStats returned; the totals of no items are zero.
C10_TotalsAreSumsOverItems ==
    /\ pc = "done" =>
        /\ analysis.items = spineItemStats
        /\ analysis.stats.word_count =
               SumSeq([j \in 1..Len(analysis.items) |-> analysis.items[j].word_count])
        /\ analysis.stats.long_word_count =
               SumSeq([j \in 1..Len(analysis.items) |-> analysis.items[j].long_word_count])
        /\ analysis.stats.sentence_count =
               SumSeq([j \in 1..Len(analysis.items) |-> analysis.items[j].sentence_count])
    /\ getTotalStats(<<>>) = [word_count |-> 0, long_word_count |-> 0, sentence_count |-> 0]

C10_Witness ==
    /\ pc = "done"
    /\ Len(spineItemContent) = 3
    /\ Len(analysis.items) = 2
    /\ analysis.stats.word_count = 140
    /\ analysis.stats.long_word_count = 13
    /\ analysis.stats.sentence_count = 9

\* C11: in every returned Analysis the generated LIX is the LIX formula applied to
\* the summed totals of the listed items (words / sentences + long words * 100 /
\* words, rounded to the nearest whole number); when the only listed item has 100
\* words, 5 long words and 5 sentences and no text holds a LIX literal, the
\* generated LIX is 25 and the lix field is 25.
C11_GeneratedLixFromTotals ==
    pc = "done" =>
        LET its == analysis.items
            words == SumSeq([j \in 1..Len(its) |-> its[j].word_count])
            longWords == SumSeq([j \in 1..Len(its) |-> its[j].long_word_count])
            sentences == SumSeq([j \in 1..Len(its) |-> its[j].sentence_count])
            exactNum == words * words + longWords * 100 * sentences
            exactDen == words * sentences
            generated == analysis.stats.lix_generated
        IN  /\ words > 0 /\ sentences > 0
            /\ generated[2] = 1
            /\ generated[1] \in Nat
            /\ 2 * (generated[1] * exactDen - exactNum) <= exactDen
            /\ 2 * (exactNum - generated[1] * exactDen) <= exactDen
            /\ (/\ Len(its) = 1
                /\ words = 100 /\ longWords = 5 /\ sentences = 5
                /\ analysis.stats.lix_found = Nullish)
                   => generated = Num(25) /\ analysis.lix = Num(25)

C11_Witness ==
    /\ pc = "done"
    /\ Len(zipItems) = 1
    /\ Len(analysis.items) = 1
    /\ analysis.items[1].word_count = 100
    /\ analysis.items[1].long_word_count = 5
    /\ analysis.items[1].sentence_count = 5
    /\ analysis.stats.lix_found = Nullish
    /\ analysis.stats.lix_generated = Num(25)
    /\ analysis.lix = Num(25)

\* the titles of the pool in case-insensitive, numeric-aware natural order: 2
\* before 10, and the capital C of Chapter2 no different from a small one
NaturalOrder ==
    <<"chapter1.xhtml", "Chapter2.xhtml", "chapter10.xhtml", "intro.xhtml",
      "kolofon.xhtml">>

\* the place of a title in that order
NaturalPlace(title) == CHOOSE p \in 1..Len(NaturalOrder) : NaturalOrder[p] = title

\* C16: the items of every returned Analysis are in case-insensitive,
\* numeric-aware natural order of their titles, whatever the order of their
\* scores, by which the outlier filter had sorted them.
C16_ItemsInNaturalTitleOrder ==
    pc = "done" =>
        \A j \in 1..Len(analysis.items), k \in 1..Len(analysis.items) :
            j < k =>
                /\ NaturalPlace(analysis.items[j].title) < NaturalPlace(analysis.items[k].title)
                /\ localeCompare(Chars(analysis.items[j].title),
                                 Chars(analysis.items[k].title), 1, 1) < 0

C16_Witness ==
    /\ pc = "done"
    /\ [j \in 1..Len(analysis.items) |-> analysis.items[j].title]
           = <<"chapter1.xhtml", "Chapter2.xhtml", "chapter10.xhtml">>
    /\ LixOf(analysis.items) = <<30, 25, 20>>
    /\ [j \in 1..Len(filterInput) |-> filterInput[j].title]
           = <<"chapter10.xhtml", "Chapter2.xhtml", "chapter1.xhtml">>

\* the archive holds readable markup with a non-empty text behind the declared href
Readable(z) == z.entry \in {"html", "xhtml"} /\ ~z.text.empty

\* the extraction of the item fails: no entry or an empty one, or markup that
\* parses neither as application/xhtml+xml nor as text/html
ExtractionFails(z) == z.entry \in {"missing", "empty", "garbage"}

\* the SpineItems of the declared documents with a non-empty text, in manifest order
ReadableItems ==
    LET readable == SelectSeq(zipItems, Readable)
    IN  [j \in 1..Len(readable) |->
            [path |-> IF Len(dirname(opfPath)) > 1
                      THEN dirname(opfPath) \o "/" \o readable[j].href
                      ELSE readable[j].href,
             text |-> readable[j].text]]

\* the items that are scored: the chapters among those, or all of them if none
\* is a chapter
ContentItems ==
    IF \E j \in 1..Len(ReadableItems) : CHAPTER_REGEX_test(ReadableItems[j].path)
    THEN SelectSeq(ReadableItems, LAMBDA item : CHAPTER_REGEX_test(item.path))
    ELSE ReadableItems

\* the text scores a number other than NaN and 0
HasScore(text) ==
    /\ text.words > 0
    /\ text.sentences > 0
    /\ 2 * (text.words * text.words + text.long_words * 100 * text.sentences)
           >= text.words * text.sentences

\* the content items that survive every exclusion
Survivors == SelectSeq(ContentItems, LAMBDA item : HasScore(item.text))

\* extractItemsFromSpine has returned or thrown
Extracted ==
    \/ pc \in {"getSpineItemStats", "aggregate", "done"}
    \/ pc = "failed" /\ thrown \in {"extractItemsFromSpine", "getSpineItemStats"}

\* the run is over
Over == pc \in {"done", "failed"}

\* C17, as claimed: when the extraction of an item fails, the items with a
\* non-empty text are still extracted, and the run returns an Analysis as long
\* as at least one item with a non-empty text remains.
C17_RunContinuesWhileTextRemains ==
    (Extracted /\ \E j \in 1..Len(zipItems) : ExtractionFails(zipItems[j])) =>
        /\ thrown # "extractItemsFromSpine" => spineItems = ReadableItems
        /\ (Over /\ ReadableItems # <<>>) => pc = "done"

\* C17, amended: when the extraction of an item fails, extractItemsFromSpine
\* still returns every item with a non-empty text, in manifest order, and throws
\* only if there is none; the run then returns an Analysis exactly if one of the
\* content items has a score other than NaN and 0 and, in the part_000 copy, no
\* content item's text is without a word.
C17_FailedItemAloneExcluded ==
    (Extracted /\ \E j \in 1..Len(zipItems) : ExtractionFails(zipItems[j])) =>
        /\ thrown = "extractItemsFromSpine" <=> ReadableItems = <<>>
        /\ thrown # "extractItemsFromSpine" => spineItems = ReadableItems
        /\ Over =>
            (pc = "done" <=>
                /\ Survivors # <<>>
                /\ variant = "part_000" =>
                       \A j \in 1..Len(ContentItems) : ContentItems[j].text.words > 0)

C17_Witness ==
    /\ pc = "done"
    /\ Len(zipItems) = 3
    /\ \E j \in 1..3 : zipItems[j].entry = "garbage"
    /\ \E j \in 1..3 : zipItems[j].entry = "missing"
    /\ \E j \in 1..3 : zipItems[j].entry = "html"
    /\ Len(spineItems) = 1
    /\ Len(analysis.items) = 1

\* the steps that resolve the container
ContainerSteps == {"loadZip", "findOpfPath", "loadOpfJson", "extractItemPathsFromManifest"}

\* C18: analyzeEpub raises an error only when the container cannot be resolved or
\* when no content item survives the exclusions; an item whose text yields no
\* word never ends a run in which another content item survives.
C18_RaisesOnlyWithoutSurvivors ==
    pc = "failed" => (thrown \in ContainerSteps \/ Survivors = <<>>)

\* extractItemPathsFromManifest has returned
Resolved ==
    \/ pc \in {"extractItemsFromSpine", "getSpineItemStats", "aggregate", "done"}
    \/ pc = "failed" /\ thrown \in {"extractItemsFromSpine", "getSpineItemStats"}

\* C19: when, after the failed items, the items without text and the items whose
\* score is NaN or 0 are excluded, no content item remains, analyzeEpub never
\* returns an Analysis: the run goes on until extractItemsFromSpine (no item
\* with a text) or getSpineItemStats (no item with a score) throws.
C19_NoSurvivorNoAnalysis ==
    (Resolved /\ Survivors = <<>>) =>
        /\ pc \notin {"aggregate", "done"}
        /\ analysis = Nullish
        /\ pc # "failed" => ENABLED Next
        /\ pc = "failed" =>
               thrown = (IF ReadableItems = <<>> THEN "extractItemsFromSpine"
                         ELSE "getSpineItemStats")

C19_Witness ==
    /\ pc = "failed"
    /\ thrown = "getSpineItemStats"
    /\ analysis = Nullish
    /\ Len(zipItems) = 3
    /\ \E j \in 1..3 : ExtractionFails(zipItems[j])
    /\ \E j \in 1..3 : zipItems[j].entry = "xhtml" /\ zipItems[j].text.empty
    /\ Len(spineItemContent) = 1
    /\ spineItemContent[1].generated_lix = 0
    /\ Survivors = <<>>

\* C20: when the manifest declares no item of media type application/xhtml+xml,
\* extractItemPathsFromManifest throws; it never returns an empty list of paths.
C20_NoContentDocumentThrows ==
    (Resolved \/ (pc = "failed" /\ thrown = "extractItemPathsFromManifest")) =>
        /\ (\A j \in 1..Len(manifest) : manifest[j].media_type # "application/xhtml+xml")
               => (pc = "failed" /\ thrown = "extractItemPathsFromManifest")
        /\ Resolved => spineItemPaths # <<>>

\* ---------------------------------------------------------------------------
\* searchForLixInItems called on its own, on a list of SpineItems that may hold
\* more than one colophon document
\* ---------------------------------------------------------------------------

MaxSearchItems == 3

\* the paths of the items of the list
SearchPaths ==
    { "OEBPS/intro.xhtml", "OEBPS/kolofon.xhtml", "OEBPS/chapter1.xhtml",
      "OEBPS/colophon.xhtml" }

\* the texts of the items: without a LIX literal, and with "LIX 0", "LIX 35",
\* "LIX 42"
SearchTexts ==
    { [empty |-> FALSE, words |-> 30, long_words |-> 3, sentences |-> 3, lix |-> found] :
        found \in {Nullish, Num(0), Num(35), Num(42)} }

\* the list searched: every path at most once, in any order
InitSearch ==
    /\ \E list \in SeqsUpTo([path : SearchPaths, text : SearchTexts], MaxSearchItems) :
           /\ \A j, k \in 1..Len(list) : list[j].path = list[k].path => j = k
           /\ searchItems = list
    /\ searchResult = Nullish
    /\ calls = 0
    /\ thrown = ""
    /\ IdleLix /\ IdleMedian /\ IdleFilter /\ IdlePipe /\ IdleText
    /\ IdleTasks /\ IdleHandlers

SearchForLixInItems ==
    /\ calls = 0
    /\ searchResult' = searchForLixInItems(searchItems)
    /\ calls' = 1
    /\ UNCHANGED <<searchItems, thrown, lixVars, medianVars, filterVars, pipeVars, textVars, taskVars, handlerVars>>

NextSearch == SearchForLixInItems

SpecSearch == InitSearch /\ [][NextSearch]_vars

\* the items of a list whose text holds a LIX literal other than 0
Hits(list) == SelectSeq(list, LAMBDA item : FoundTruthy(item.text.lix))

\* those of them whose path matches the colophon naming pattern
ColophonHits(list) == SelectSeq(Hits(list), LAMBDA item : COLOPHON_REGEX_test(item.path))

\* C13: the search returns the literal of the first colophon document that
\* holds one; if no colophon document holds one, the literal of the first item
\* that holds one; if no item holds one, nothing.
C13_ColophonsSearchedFirst ==
    calls = 1 =>
        searchResult =
            IF ColophonHits(searchItems) # <<>> THEN ColophonHits(searchItems)[1].text.lix
            ELSE IF Hits(searchItems) # <<>> THEN Hits(searchItems)[1].text.lix
            ELSE Nullish

(***************************************************************************)
(* getContentFromText (part_000:506-549) / extractContentFromText          *)
(* (part_001:415-459) and searchForLixInText (part_001:466-488) on the     *)
(* characters of a text.  The three regular expressions are matched as the *)
(* engine matches them, character by character.                            *)
(***************************************************************************)
MaxTextLen == 5
MaxWordLen == 8

\* \s
Whitespace == {" "}

\* [a-zA-Z] of [a-zA-Z\u00C0-\u00FF]
Letters == LowerCase \cup UpperCase

\* the index after the run of characters of the class that starts at index i
RECURSIVE RunEnd(_, _, _)
RunEnd(s, i, class) == IF At(s, i) \in class THEN RunEnd(s, i + 1, class) ELSE i

\* the index before the run of characters of the class that ends at index i
RECURSIVE RunStart(_, _, _)
RunStart(s, i, class) == IF At(s, i) \in class THEN RunStart(s, i - 1, class) ELSE i

\* String.prototype.trim
trim(s) == SubSeq(s, RunEnd(s, 1, Whitespace), RunStart(s, Len(s), Whitespace))

\* (?:[.'][a-zA-Z\u00C0-\u00FF]+)* from index e: the index after the last group
RECURSIVE WordTailEnd(_, _)
WordTailEnd(s, e) ==
    IF At(s, e) \in {".", "'"} /\ At(s, e + 1) \in Letters
    THEN WordTailEnd(s, RunEnd(s, e + 1, Letters))
    ELSE e

\* WORD_REGEX from index i, where a letter or a digit stands: the index after
\* the match
WordEnd(s, i) == WordTailEnd(s, RunEnd(s, i, Letters \cup Digits))

\* the matches of WORD_REGEX from index i on, left to right
RECURSIVE WordsFrom(_, _)
WordsFrom(s, i) ==
    IF i > Len(s) THEN <<>>
    ELSE IF s[i] \in Letters \cup Digits
         THEN <<SubSeq(s, i, WordEnd(s, i) - 1)>> \o WordsFrom(s, WordEnd(s, i))
         ELSE WordsFrom(s, i + 1)

\* text.match(WORD_REGEX): the matches; none stands for null
WORD_REGEX_match(s) == WordsFrom(s, 1)

\* `[${CONSONTANTS}]`: CONSONTANTS is a RegExp, and its source text
\* "/bcdfghjklmnpqrstvwxzBCDFGHJKLMNPQRSTVWXZ]/" is what the template inserts,
\* so the class is [/bcdfghjklmnpqrstvwxzBCDFGHJKLMNPQRSTVWXZ] ...
ConsonantClass ==
    {"/"} \cup ((LowerCase \cup UpperCase) \ {"a", "e", "i", "o", "u", "y", "A", "E",
                                             "I", "O", "U", "Y"})

\* ... and the lookbehind is (?<!\s(?!pc|wc)[/bcd...XZ]/]{1,3}\.): before
\* index q stand a whitespace, a character of the class that does not start
\* "pc" or "wc", a slash, one to three closing brackets and a period
AbbreviationBefore(s, q) ==
    \E k \in 1..3 :
        /\ At(s, q - 1) = "."
        /\ \A j \in 1..k : At(s, q - 1 - j) = "]"
        /\ At(s, q - k - 2) = "/"
        /\ At(s, q - k - 3) \in ConsonantClass
        /\ <<At(s, q - k - 3), At(s, q - k - 2)>> \notin {<<"p", "c">>, <<"w", "c">>}
        /\ At(s, q - k - 4) \in Whitespace

\* (?<=[.!?'"])
SentenceEnd == {".", "!", "?", "'", "\""}

\* (?=[^a-z\u00E0-\u00FF.(]) at index e: a character stands there, and it is none of these
StartsSentence(s, e) == At(s, e) # "" /\ At(s, e) \notin LowerCase \cup {".", "("}

\* SENTENCE_REGEX matched at index q: the index after the match, 0 if it does
\* not match there.  \s+ takes the whole run of whitespace, and gives one
\* character back if what follows the run does not start a sentence.
SENTENCE_REGEX_matchAt(s, q) ==
    LET r == RunEnd(s, q, Whitespace)
    IN  IF \/ At(s, q) \notin Whitespace
           \/ At(s, q - 1) \notin SentenceEnd
           \/ AbbreviationBefore(s, q)
        THEN 0
        ELSE IF StartsSentence(s, r) THEN r
        ELSE IF r - 1 > q THEN r - 1
        ELSE 0

\* String.prototype.split(SENTENCE_REGEX): p the start of the piece being
\* collected, q the index the separator is tried at
RECURSIVE SplitFrom(_, _, _)
SplitFrom(s, p, q) ==
    IF q > Len(s) THEN <<SubSeq(s, p, Len(s))>>
    ELSE IF SENTENCE_REGEX_matchAt(s, q) = 0 THEN SplitFrom(s, p, q + 1)
    ELSE <<SubSeq(s, p, q - 1)>>
             \o SplitFrom(s, SENTENCE_REGEX_matchAt(s, q), SENTENCE_REGEX_matchAt(s, q))

SENTENCE_REGEX_split(s) == SplitFrom(s, 1, 1)

LongWords_FromSix(words) == SelectSeq(words, LAMBDA word : Len(word) >= 6)

\* words.filter((word) => word.length > 6)
LongWords(words) == SelectSeq(words, LAMBDA word : Len(word) > 6)

\* the TextContent of a text.  part_000:534-536 calls .filter on the result of
\* match, which is null for a text without a word.
getContentFromText(s, copy) ==
    LET sentences == SelectSeq(SENTENCE_REGEX_split(trim(s)),
                               LAMBDA sentence : Len(trim(sentence)) > 0)
        words == SelectSeq(WORD_REGEX_match(s), LAMBDA word : Len(word) > 0)
    IN  IF copy = "part_000" /\ WORD_REGEX_match(s) = <<>>
        THEN [threw |-> TRUE, words |-> <<>>, long_words |-> <<>>, sentences |-> <<>>]
        ELSE [threw |-> FALSE, words |-> words, long_words |-> LongWords(words),
              sentences |-> sentences]

\* a character as the i flag compares it
Canonicalize(c) == IF c \in LowerCase THEN UpperSeq[LetterIndex(c)] ELSE c

\* the characters of s from index i on spell the word, whatever their case
SpellsAt(s, i, word) == \A j \in 1..Len(word) : Canonicalize(At(s, i + j - 1)) = word[j]

\* (?!\d?[\-\+]) at index e
NoSignAhead(s, e) ==
    ~ \/ At(s, e) \in {"-", "+"}
      \/ At(s, e) \in Digits /\ At(s, e + 1) \in {"-", "+"}

\* LIX_REGEX matched at index p: the digits captured, none if it does not
\* match there.  \d{1,2} takes two digits if it can, and gives one back if the
\* lookahead refuses what follows them.
LIX_REGEX_matchAt(s, p) ==
    LET afterSpace == RunEnd(s, p + 3, Whitespace)
        afterHyphen == IF At(s, afterSpace) = "-" THEN afterSpace + 1 ELSE afterSpace
        afterTal == IF SpellsAt(s, afterHyphen, <<"T", "A", "L">>)
                    THEN afterHyphen + 3 ELSE afterHyphen
        afterColon == IF At(s, afterTal) = ":" THEN afterTal + 1 ELSE afterTal
        d == RunEnd(s, afterColon, Whitespace)
    IN  IF \/ At(s, p - 1) \in Letters
           \/ ~ SpellsAt(s, p, <<"L", "I", "X">>)
           \/ At(s, d) \notin Digits
        THEN <<>>
        ELSE IF At(s, d + 1) \in Digits /\ NoSignAhead(s, d + 2) THEN SubSeq(s, d, d + 1)
        ELSE IF NoSignAhead(s, d + 1) THEN SubSeq(s, d, d)
        ELSE <<>>

\* LIX_REGEX.exec(text)[1]: the capture of the leftmost match, none for null
LIX_REGEX_exec(s) ==
    LET starts == {p \in 1..Len(s) : LIX_REGEX_matchAt(s, p) # <<>>}
    IN  IF starts = {} THEN <<>>
        ELSE LIX_REGEX_matchAt(s, CHOOSE p \in starts : \A other \in starts : p <= other)

\* parseInt of a run of digits
parseInt(digits) == DigitRunValue(digits, 1, Len(digits) + 1)

\* "Mr. Smith went home. He left."
Text_MrSmith ==
    <<"M", "r", ".", " ", "S", "m", "i", "t", "h", " ", "w", "e", "n", "t", " ", "h",
      "o", "m", "e", ".", " ", "H", "e", " ", "l", "e", "f", "t", ".">>

\* "Reading longer sentences is harder."
Text_ReadingLonger ==
    <<"R", "e", "a", "d", "i", "n", "g", " ", "l", "o", "n", "g", "e", "r", " ", "s",
      "e", "n", "t", "e", "n", "c", "e", "s", " ", "i", "s", " ", "h", "a", "r", "d",
      "e", "r", ".">>

\* "LIX142"
Text_Lix142 ==
    <<"L", "I", "X", "1", "4", "2">>

\* "Forfatterens LIX-tal: 42."
Text_LixTal42 ==
    <<"F", "o", "r", "f", "a", "t", "t", "e", "r", "e", "n", "s", " ", "L", "I", "X",
      "-", "t", "a", "l", ":", " ", "4", "2", ".">>

\* "LIX 42-50"
Text_LixRange ==
    <<"L", "I", "X", " ", "4", "2", "-", "5", "0">>

\* "LIX 142-"
Text_Lix142Signed ==
    <<"L", "I", "X", " ", "1", "4", "2", "-">>

\* "KLIX 30 lix 7"
Text_KlixThenLix ==
    <<"K", "L", "I", "X", " ", "3", "0", " ", "l", "i", "x", " ", "7">>

\* "O'Reilly visited the U.S. in 1999!"
Text_OReilly ==
    <<"O", "'", "R", "e", "i", "l", "l", "y", " ", "v", "i", "s", "i", "t", "e", "d",
      " ", "t", "h", "e", " ", "U", ".", "S", ".", " ", "i", "n", " ", "1", "9", "9",
      "9", "!">>

\* "a.  B"
Text_DoubleSpace ==
    <<"a", ".", " ", " ", "B">>

\* "Hi x/]. Yes."
Text_SlashBracket ==
    <<"H", "i", " ", "x", "/", "]", ".", " ", "Y", "e", "s", ".">>

\* "Wait... What? "Yes!" he said."
Text_WaitWhat ==
    <<"W", "a", "i", "t", ".", ".", ".", " ", "W", "h", "a", "t", "?", " ", "\"", "Y",
      "e", "s", "!", "\"", " ", "h", "e", " ", "s", "a", "i", "d", ".">>

HandTexts ==
    { Text_MrSmith, Text_ReadingLonger, Text_Lix142, Text_LixTal42, Text_LixRange,
      Text_Lix142Signed, Text_KlixThenLix, Text_OReilly, Text_DoubleSpace,
      Text_SlashBracket, Text_WaitWhat }

\* a word of n letters
WordOfLength(n) == [j \in 1..n |-> "a"]

\* the texts of two words of up to MaxWordLen letters
WordLengthTexts ==
    { WordOfLength(n) \o <<" ">> \o WordOfLength(m) : n, m \in 0..MaxWordLen }

\* the characters of the short texts
TextAlphabet == {"a", "A", ".", " "}

InitText ==
    /\ \E s \in HandTexts \cup WordLengthTexts \cup SeqsUpTo(TextAlphabet, MaxTextLen) :
           chars = s
    /\ textContent = [threw |-> FALSE, words |-> <<>>, long_words |-> <<>>,
                      sentences |-> <<>>]
    /\ lixInText = Nullish
    /\ variant \in {"part_000", "part_001"}
    /\ calls = 0
    /\ thrown = ""
    /\ IdleLix /\ IdleMedian /\ IdleFilter /\ IdleSteps /\ IdleSearch
    /\ IdleTasks /\ IdleHandlers

\* const textContent = getContentFromText(text)
GetContentFromText ==
    /\ calls = 0
    /\ textContent' = getContentFromText(chars, variant)
    /\ thrown' = IF getContentFromText(chars, variant).threw
                 THEN "getContentFromText" ELSE ""
    /\ calls' = 1
    /\ UNCHANGED <<chars, lixInText, lixVars, medianVars, filterVars, pipeVars,
                   searchVars, taskVars, handlerVars>>

\* part_001:483-484  const result = LIX_REGEX.exec(text);
\*                   return result === null ? null : parseInt(result[1])
SearchForLixInText ==
    /\ calls = 1
    /\ lixInText' = IF LIX_REGEX_exec(chars) = <<>> THEN Nullish
                    ELSE Num(parseInt(LIX_REGEX_exec(chars)))
    /\ calls' = 2
    /\ UNCHANGED <<chars, textContent, thrown, lixVars, medianVars, filterVars,
                   pipeVars, searchVars, taskVars, handlerVars>>

NextText == GetContentFromText \/ SearchForLixInText

SpecText == InitText /\ [][NextText]_vars

\* C12: once a text is tokenized, long_words is the words longer than 6
\* characters, in the order they have in words: every long word has more than 6
\* characters, no word of more than 6 characters is left out, and there are no
\* more long words than words; the counts taken from the lengths, per item and
\* in total, satisfy word_count >= long_word_count >= 0 and sentence_count >= 0.
C12_LongWordsAmongWords ==
    /\ calls >= 1 =>
           LET words == textContent.words
               long_words == textContent.long_words
               kept == {j \in 1..Len(words) : Len(words[j]) > 6}
           IN  /\ \A j \in 1..Len(long_words) : Len(long_words[j]) > 6
               /\ Len(long_words) = Cardinality(kept)
               /\ \A j \in kept :
                      long_words[Cardinality({k \in kept : k <= j})] = words[j]
               /\ Len(long_words) <= Len(words)
               /\ Len(textContent.sentences) >= 0
    /\ \A j \in 1..Len(spineItemStats) :
           /\ spineItemStats[j].word_count >= spineItemStats[j].long_word_count
           /\ spineItemStats[j].long_word_count >= 0
           /\ spineItemStats[j].sentence_count >= 0
    /\ pc \in {"aggregate", "done"} =>
           /\ getTotalStats(spineItemStats).word_count
                  >= getTotalStats(spineItemStats).long_word_count
           /\ getTotalStats(spineItemStats).long_word_count >= 0
           /\ getTotalStats(spineItemStats).sentence_count >= 0

\* "Reading longer sentences is harder." is tokenized: of its five words,
\* "Reading" (7 letters) and "sentences" are long, "longer" and "harder" (6
\* letters) are not
C12_Witness ==
    /\ calls >= 1
    /\ chars = Text_ReadingLonger
    /\ Len(textContent.words) = 5
    /\ textContent.long_words =
           << <<"R", "e", "a", "d", "i", "n", "g">>,
              <<"s", "e", "n", "t", "e", "n", "c", "e", "s">> >>
    /\ Len(textContent.sentences) = 1

\* C14: searchForLixInText applied to the text "LIX142" returns neither 14 nor
\* 42: the literal's digits are followed by a further digit, so it is not matched.
C14_ThreeDigitsNotMatched ==
    (calls = 2 /\ chars = Text_Lix142) => lixInText \notin {Num(14), Num(42)}

\* C15: the tokenizer does not split after the abbreviation "Mr.": the text
\* "Mr. Smith went home. He left." yields exactly 2 sentences.
C15_NoSplitAfterAbbreviation ==
    (calls >= 1 /\ chars = Text_MrSmith /\ ~ textContent.threw) =>
        Len(textContent.sentences) = 2

\* the place of the item titled t in the ascending order of the scores of a
\* list, items of equal score in their input order (the item at index j of an
\* input list is titled j)
SortedPlace(list, t) ==
    Cardinality({j \in 1..Len(list) :
                    \/ list[j].generated_lix < list[t].generated_lix
                    \/ list[j].generated_lix = list[t].generated_lix /\ j <= t})

\* C23: the items filterItemsUsingStandardDeviation returns are items of the
\* input, each at most once and unaltered, in the relative order they have in
\* the input sorted by ascending score.
C23_RemovalIsStable ==
    calls >= 1 =>
        /\ \A j \in 1..Len(filtered) : filtered[j] \in Range(items)
        /\ \A j \in 1..Len(filtered) : filtered[j] = items[filtered[j].title]
        /\ \A j, k \in 1..Len(filtered) :
               j < k => SortedPlace(items, filtered[j].title)
                            < SortedPlace(items, filtered[k].title)

\* an outlier is removed from a list of four, and two of the three items kept
\* have the same score
C23_Witness ==
    /\ calls >= 1
    /\ Len(items) = 4
    /\ Len(filtered) = 3
    /\ StdDevGreater(getVariance(LixOf(items)), STANDARD_DEVIATION_FACTOR)
    /\ \E j, k \in 1..3 : j < k /\ filtered[j].generated_lix = filtered[k].generated_lix
    /\ filtered[1].title > filtered[2].title

\* the values of the array strictly within stdDev of its upper middle value, in
\* ascending order
WithinStdDev(arr, stdDev) ==
    SelectSeq(SortNumbers(arr),
              LAMBDA v : /\ v < UpperMiddle(arr) + stdDev
                         /\ v > UpperMiddle(arr) - stdDev)

\* C24: of a non-empty array, getMedianWithStandardDeviation returns the median
\* (getMedian's odd/even rule) of the values left after removal when the
\* standard deviation is positive and exceeds the cap, the midpoint being taken
\* anew from what is left; when the standard deviation does not exceed the cap
\* it returns getMedian of the whole array.
C24_MedianOfWhatIsLeft ==
    (calls = 1 /\ array # <<>>) =>
        /\ thrown = ""
        /\ (textStandardDeviation > 0 /\ textStandardDeviation > standardDeviationCap)
               => median = getMedian(WithinStdDev(array, textStandardDeviation))
        /\ textStandardDeviation <= standardDeviationCap => median = getMedian(array)
        /\ array = arrayBefore

\* [0, 2, 3, 4] with standard deviation 2 over the cap 1: 0 is removed, and the
\* median of [2, 3, 4] is 3, where the midpoint of four values would read 4
C24_Witness ==
    /\ calls = 1
    /\ array = <<3, 0, 4, 2>>
    /\ textStandardDeviation = 2
    /\ standardDeviationCap = 1
    /\ median = <<3, 1>>

\* the file names of the content items whose path holds "chapter" or "kapitel"
\* in any case, or of all content items if no path does
CountedTitles ==
    LET chapterTitles == {basename(spineItems[j].path) : j \in
                             {k \in 1..Len(spineItems) :
                                 CHAPTER_REGEX_test(spineItems[k].path)}}
    IN  IF chapterTitles # {} THEN chapterTitles
        ELSE {basename(spineItems[j].path) : j \in 1..Len(spineItems)}

\* C25: when the path of a content item holds chapter or kapitel, the items
\* scored are exactly those whose path does, and the items and totals of the
\* Analysis come from them alone; otherwise every content item is scored.  The
\* found LIX is searched in all content items, chapter or not.
C25_OnlyChaptersCounted ==
    /\ pc \in {"aggregate", "done"} =>
           /\ {spineItemContent[j].title : j \in 1..Len(spineItemContent)} = CountedTitles
           /\ Len(spineItemContent) = Cardinality(CountedTitles)
           /\ \A j \in 1..Len(spineItemStats) : spineItemStats[j].title \in CountedTitles
    /\ pc = "done" =>
           /\ analysis.items = spineItemStats
           /\ analysis.stats.word_count
                  = SumSeq([j \in 1..Len(spineItemStats) |-> spineItemStats[j].word_count])
           /\ analysis.stats.lix_found =
                  IF ColophonHits(spineItems) # <<>>
                  THEN ColophonHits(spineItems)[1].text.lix
                  ELSE IF Hits(spineItems) # <<>> THEN Hits(spineItems)[1].text.lix
                  ELSE Nullish

\* a chapter and the colophon are content items; only the chapter is counted,
\* and the LIX found is the literal of the colophon
C25_Witness ==
    /\ pc = "done"
    /\ Len(spineItems) = 2
    /\ \E j \in 1..2 : /\ ~ CHAPTER_REGEX_test(spineItems[j].path)
                       /\ spineItems[j].text.lix = Num(42)
                       /\ spineItems[j].text.words > 0
    /\ Len(analysis.items) = 1
    /\ analysis.items[1].title = "chapter1.xhtml"
    /\ analysis.stats.lix_found = Num(42)
    /\ analysis.stats.word_count = analysis.items[1].word_count

\* a value a search may return: null, or a whole number from 1 to 99
NullOrPositive(found) == found = Nullish \/ (found[2] = 1 /\ found[1] \in 1..99)

\* C26: searchForLixInItems never returns 0: a literal of value 0, in the
\* colophon or in an earlier item, is passed over and the search goes on with
\* the remaining items, returning null only if no item holds a literal other
\* than 0; the found LIX of an Analysis is null or a whole number from 1 to 99.
C26_ZeroIsNotFound ==
    /\ calls = 1 =>
           /\ NullOrPositive(searchResult)
           /\ searchResult = Nullish <=>
                  \A j \in 1..Len(searchItems) : searchItems[j].text.lix \in {Nullish, Num(0)}
    /\ calls = 2 => lixInText = Nullish \/ (lixInText[2] = 1 /\ lixInText[1] \in 0..99)
    /\ pc = "done" => NullOrPositive(analysis.stats.lix_found)

\* the colophon comes first and holds "LIX 0", a later item holds "LIX 35"
C26_Witness ==
    /\ calls = 1
    /\ Len(searchItems) = 3
    /\ COLOPHON_REGEX_test(searchItems[1].path)
    /\ searchItems[1].text.lix = Num(0)
    /\ searchItems[2].text.lix = Num(0)
    /\ searchItems[3].text.lix = Num(35)
    /\ searchResult = Num(35)

\* C27: in every Analysis the part_001 analyzeEpub returns, the list of items is
\* not empty and the median of their scores is a number, so lix is the found
\* LIX when that is not null and the median otherwise, whatever the generated
\* LIX of the whole book is.
C27_GeneratedFallbackNeverTaken ==
    (pc = "done" /\ variant = "part_001") =>
        /\ analysis.items # <<>>
        /\ analysis.stats.lix_median # Nullish
        /\ analysis.stats.lix_median[1] > 0
        /\ analysis.stats.lix_median[2] \in {1, 2}
        /\ analysis.lix = IF analysis.stats.lix_found # Nullish
                          THEN analysis.stats.lix_found
                          ELSE analysis.stats.lix_median

\* no literal is found, the median of the scores differs from the generated LIX
\* of the whole book, and lix is the median
C27_Witness ==
    /\ pc = "done"
    /\ variant = "part_001"
    /\ Len(analysis.items) >= 2
    /\ analysis.stats.lix_found = Nullish
    /\ analysis.stats.lix_median # analysis.stats.lix_generated
    /\ analysis.lix = analysis.stats.lix_median

(***************************************************************************)
(* analyzeEpub with the promises of its two maps: extractItemsFromSpine    *)
(* (part_001:229-290) starts one callback per path, each of which awaits   *)
(* the decompression of its entry and settles when that is done, in any    *)
(* order; getSpineItemStats (part_001:326-347) starts one callback per     *)
(* content item, which has no await and so runs to its end inside map.     *)
(***************************************************************************)
\* what may lie behind a declared href: no entry, a text that scores 30, a
\* text that scores 25 and a text without a word
TaskEntryPool ==
    { [entry |-> "missing", text |-> EmptyText],
      [entry |-> "xhtml",
       text |-> [empty |-> FALSE, words |-> 40, long_words |-> 8, sentences |-> 4,
                 lix |-> Nullish]],
      [entry |-> "xhtml",
       text |-> [empty |-> FALSE, words |-> 100, long_words |-> 5, sentences |-> 5,
                 lix |-> Nullish]],
      [entry |-> "xhtml",
       text |-> [empty |-> FALSE, words |-> 0, long_words |-> 0, sentences |-> 1,
                 lix |-> Nullish]] }

InitTasks ==
    \E hrefs \in SpineHrefInputs :
        \E entries \in [1..Len(hrefs) -> TaskEntryPool] :
            Start(hrefs, entries)

AllSettled_AnySettled(promises) ==
    promises = <<>> \/ \E j \in 1..Len(promises) : promises[j].settled

\* await Promise.all(promises) goes on when every promise has settled
AllSettled(promises) == \A j \in 1..Len(promises) : promises[j].settled

PromiseAll_InSettleOrder(promises, order) ==
    [j \in 1..Len(promises) |-> promises[order[j]].value]

\* the array Promise.all resolves to: the value of each promise at the index
\* of the promise, whatever the order they settled in
PromiseAll(promises, order) == [j \in 1..Len(promises) |-> promises[j].value]

\* line 229: spineItemPaths.map(async (spineItemPath) => ...), every callback
\* run up to its first await
MapExtraction ==
    /\ pc = "extractItemsFromSpine"
    /\ extractPromises' =
           [j \in 1..Len(spineItemPaths) |->
               [settled |-> FALSE,
                value |-> [path |-> spineItemPaths[j], text |-> EmptyText]]]
    /\ pc' = "awaitExtraction"
    /\ UNCHANGED <<variant, container, manifest, zipItems, opfPath, spineItemPaths,
                   spineItems, spineItemContent, filterInput, spineItemStats,
                   lixValues, analysis, thrown, calls, settleOrder, scorePromises,
                   lixVars, medianVars, filterVars, searchVars, textVars, handlerVars>>

\* lines 230-286: the callback of one path runs to its return, in the try or
\* in the catch
SettleExtraction ==
    /\ pc = "awaitExtraction"
    /\ \E j \in 1..Len(extractPromises) :
           /\ ~ extractPromises[j].settled
           /\ extractPromises' =
                  [extractPromises EXCEPT
                      ![j] = [settled |-> TRUE,
                              value |-> SpineItemOf(zipItems, dirname(opfPath),
                                                    spineItemPaths[j])]]
           /\ settleOrder' = Append(settleOrder, j)
    /\ UNCHANGED <<variant, container, manifest, zipItems, opfPath, spineItemPaths,
                   spineItems, spineItemContent, filterInput, spineItemStats,
                   lixValues, analysis, thrown, calls, pc, scorePromises,
                   lixVars, medianVars, filterVars, searchVars, textVars, handlerVars>>

\* lines 290-297: (await Promise.all(promises)).filter((item) => item.text)
ResolveExtraction ==
    /\ pc = "awaitExtraction"
    /\ AllSettled(extractPromises)
    /\ LET kept == SelectSeq(PromiseAll(extractPromises, settleOrder),
                             LAMBDA item : ~ item.text.empty)
       IN  /\ spineItems' = kept
           /\ thrown' = IF Len(kept) = 0 THEN "extractItemsFromSpine" ELSE ""
           /\ pc' = IF Len(kept) = 0 THEN "failed" ELSE "getSpineItemStats"
    /\ UNCHANGED <<variant, container, manifest, zipItems, opfPath, spineItemPaths,
                   spineItemContent, filterInput, spineItemStats,
                   lixValues, analysis, calls, taskVars,
                   lixVars, medianVars, filterVars, searchVars, textVars, handlerVars>>

\* lines 314-318: the chapters if there is one, every item otherwise
ChaptersOrAll(sItems) ==
    LET chapters == SelectSeq(sItems, LAMBDA item : CHAPTER_REGEX_test(item.path))
    IN  IF Len(chapters) > 0 THEN chapters ELSE sItems

\* line 326: contentItems.map(async (item) => ...)
MapScoring ==
    /\ pc = "getSpineItemStats"
    /\ scorePromises' =
           [j \in 1..Len(ChaptersOrAll(spineItems)) |->
               [settled |-> FALSE,
                value |-> [threw |-> FALSE,
                           title |-> basename(ChaptersOrAll(spineItems)[j].path),
                           generated_lix |-> NaN, words |-> 0, long_words |-> 0,
                           sentences |-> 0]]]
    /\ pc' = "scoring"
    /\ UNCHANGED <<variant, container, manifest, zipItems, opfPath, spineItemPaths,
                   spineItems, spineItemContent, filterInput, spineItemStats,
                   lixValues, analysis, thrown, calls, extractPromises, settleOrder,
                   lixVars, medianVars, filterVars, searchVars, textVars, handlerVars>>

\* lines 327-344: the callback of the next item, which runs to its return (or
\* to the throw of part_000:534) before map calls the one after
SettleScoring ==
    /\ pc = "scoring"
    /\ \E j \in 1..Len(scorePromises) :
           /\ ~ scorePromises[j].settled
           /\ \A k \in 1..(j - 1) : scorePromises[k].settled
           /\ scorePromises' =
                  [scorePromises EXCEPT
                      ![j] = [settled |-> TRUE,
                              value |-> ScoreItem(ChaptersOrAll(spineItems)[j], variant)]]
    /\ UNCHANGED <<variant, container, manifest, zipItems, opfPath, spineItemPaths,
                   spineItems, spineItemContent, filterInput, spineItemStats,
                   lixValues, analysis, thrown, calls, pc, extractPromises, settleOrder,
                   lixVars, medianVars, filterVars, searchVars, textVars, handlerVars>>

\* lines 347-369: await Promise.all(spineItemContentPromises), the filter on
\* the scores, the outlier filter and the sort by title
ResolveScoring ==
    /\ pc = "scoring"
    /\ AllSettled(scorePromises)
    /\ LET content == PromiseAll(scorePromises, [j \in 1..Len(scorePromises) |-> j])
           filteredSpineItemContent == TruthyScores(content)
           filteredSpineItems ==
               filterItemsUsingStandardDeviation(filteredSpineItemContent,
                                                 STANDARD_DEVIATION_FACTOR)
           rejected == \E j \in 1..Len(content) : content[j].threw
       IN  /\ spineItemContent' = IF rejected THEN <<>> ELSE content
           /\ filterInput' = IF rejected THEN <<>> ELSE filteredSpineItemContent
           /\ spineItemStats' =
                  IF rejected \/ filteredSpineItems.threw THEN <<>>
                  ELSE SortByTitle([j \in 1..Len(filteredSpineItems.value) |->
                                       ToStats(filteredSpineItems.value[j])])
           /\ thrown' = IF rejected \/ filteredSpineItems.threw
                        THEN "getSpineItemStats" ELSE ""
           /\ pc' = IF rejected \/ filteredSpineItems.threw THEN "failed" ELSE "aggregate"
    /\ UNCHANGED <<variant, container, manifest, zipItems, opfPath, spineItemPaths,
                   spineItems, lixValues, analysis, calls, taskVars,
                   lixVars, medianVars, filterVars, searchVars, textVars, handlerVars>>

NextTasks ==
    \/ LoadZip
    \/ FindOpfPath
    \/ LoadOpfJson
    \/ ExtractItemPathsFromManifest
    \/ MapExtraction
    \/ SettleExtraction
    \/ ResolveExtraction
    \/ MapScoring
    \/ SettleScoring
    \/ ResolveScoring
    \/ Aggregate

SpecTasks == InitTasks /\ [][NextTasks]_vars

\* extractItemsFromSpine has returned its items
ExtractionResolved ==
    \/ pc \in {"getSpineItemStats", "scoring", "aggregate", "done"}
    \/ pc = "failed" /\ thrown = "getSpineItemStats"

\* the hrefs the manifest declares as application/xhtml+xml, in its order,
\* without those whose entry gives no text
DeclaredWithText ==
    LET declared == SelectSeq(manifest,
                              LAMBDA item : item.media_type = "application/xhtml+xml")
    IN  SelectSeq([j \in 1..Len(declared) |-> declared[j].href],
                  LAMBDA href : \E j \in 1..Len(zipItems) :
                                    zipItems[j].href = href /\ Readable(zipItems[j]))

\* C21: the content items extractItemsFromSpine returns stand in the order the
\* manifest declares their documents in, the dropped ones left out, whatever
\* the order the extractions of the documents completed in.
C21_ItemsInManifestOrder ==
    ExtractionResolved =>
        /\ [j \in 1..Len(spineItems) |-> basename(spineItems[j].path)] = DeclaredWithText
        /\ \A j \in 1..Len(spineItems) :
               spineItems[j].path \in Range(spineItemPaths)
        /\ extractPromises # <<>> =>
               /\ Len(settleOrder) = Len(spineItemPaths)
               /\ Range(settleOrder) = 1..Len(spineItemPaths)

\* three documents are declared; the extraction of the third completes first,
\* that of the first, which has no entry, second; the two items returned are the
\* second and the third
C21_Witness ==
    /\ ExtractionResolved
    /\ settleOrder = <<3, 1, 2>>
    /\ zipItems[1].entry = "missing"
    /\ Len(spineItems) = 2
    /\ spineItems[1].path = spineItemPaths[2]
    /\ spineItems[2].path = spineItemPaths[3]

\* every promise of the list has settled
EverySettled(promises) == \A j \in 1..Len(promises) : promises[j].settled

\* C22: the filter on the scores, the outlier filter and the aggregation see the
\* results of every item: when they have run, every extraction and every
\* scoring of the run has completed, and their results are those of the whole
\* list of content items.
C22_AggregationAfterAllItems ==
    /\ (filterInput # <<>> \/ spineItemStats # <<>> \/ analysis # Nullish
            \/ pc \in {"scoring", "aggregate", "done"}) =>
           /\ EverySettled(extractPromises)
           /\ Len(extractPromises) = Len(spineItemPaths)
           /\ spineItems = extractItemsFromSpine(spineItemPaths, zipItems,
                                                 dirname(opfPath)).value
    /\ (filterInput # <<>> \/ spineItemStats # <<>> \/ analysis # Nullish
            \/ pc \in {"aggregate", "done"}) =>
           /\ EverySettled(scorePromises)
           /\ Len(scorePromises) = Len(ChaptersOrAll(spineItems))
           /\ spineItemContent = getSpineItemStats(spineItems, variant).content
           /\ filterInput = getSpineItemStats(spineItems, variant).input
           /\ spineItemStats = getSpineItemStats(spineItems, variant).value
    /\ (pc = "failed" /\ thrown = "getSpineItemStats") =>
           /\ EverySettled(extractPromises)
           /\ EverySettled(scorePromises)

\* three items were extracted, the last one first, and scored; the aggregation
\* is about to run on the three
C22_Witness ==
    /\ pc = "aggregate"
    /\ settleOrder = <<3, 2, 1>>
    /\ Len(extractPromises) = 3
    /\ Len(scorePromises) = 3
    /\ Len(filterInput) = 3
    /\ Len(spineItemStats) = 3

(***************************************************************************)
(* src/handleAnalyzeEpub.ts: two invocations of handleAnalyzeEpubTrigger   *)
(* or handleAnalyzeEpubAPI running side by side on one temporary           *)
(* directory, their awaits interleaved.                                    *)
(***************************************************************************)
Invocations == {"first", "second"}

\* the objects in Firebase Storage: two books whose paths end in the same file
\* name, a third book, and a file that is no EPUB; nothing lies at
\* "a/gone.epub"
StorageObjects ==
    [storage_path \in {"a/book.epub", "b/book.epub", "a/novel.epub", "a/broken.epub",
                       "a/gone.epub"} |->
        CASE storage_path = "a/book.epub" -> "book of a"
          [] storage_path = "b/book.epub" -> "book of b"
          [] storage_path = "a/novel.epub" -> "novel of a"
          [] storage_path = "a/broken.epub" -> "broken"
          [] storage_path = "a/gone.epub" -> ""]

\* path.basename(storage_path): what follows the directory
FileNames == {"book.epub", "novel.epub", "broken.epub", "gone.epub"}
fileNameOf(storage_path) ==
    CHOOSE fileName \in FileNames : \E dir \in {"a", "b"} : storage_path = dir \o "/" \o fileName

TempFilePath_PerMaterial(material_id, storage_path) == "/tmp/" \o material_id \o ".epub"

\* lines 213-214: path.join(os.tmpdir(), path.basename(storage_path))
TempFilePath(material_id, storage_path) == "/tmp/" \o fileNameOf(storage_path)

\* What a handler may be called with.  For the trigger: the snapshot after the
\* write (exists, material_ext, storage_path) and the params of the context;
\* for the API: the material_id of the data, and what the two lookups give
\* (publisher_id "" if Firestore knows no publisher, exists FALSE if the
\* Realtime Database holds no material).
Request(handler, material_id, publisher_id, exists, material_ext, storage_path) ==
    [handler |-> handler, material_id |-> material_id, publisher_id |-> publisher_id,
     exists |-> exists, material_ext |-> material_ext, storage_path |-> storage_path]

RequestPool ==
    { Request("trigger", "9788700000001", "a", TRUE, "epub", "a/book.epub"),
      Request("trigger", "9788700000002", "b", TRUE, "epub", "b/book.epub"),
      Request("trigger", "9788700000003", "a", TRUE, "epub", "a/novel.epub"),
      Request("trigger", "9788700000004", "a", TRUE, "epub", "a/broken.epub"),
      Request("trigger", "9788700000005", "a", TRUE, "epub", "a/gone.epub"),
      Request("trigger", "9788700000001", "a", FALSE, "epub", "a/book.epub"),
      Request("trigger", "9788700000001", "a", TRUE, "mp3", "a/book.epub"),
      Request("trigger", "", "a", TRUE, "epub", "a/book.epub"),
      Request("trigger", "9788700000001", "", TRUE, "epub", "a/book.epub"),
      Request("api", "9788700000001", "a", TRUE, "epub", "a/book.epub"),
      Request("api", "12345", "a", TRUE, "epub", "a/book.epub"),
      Request("api", "9788700000001", "", TRUE, "epub", "a/book.epub"),
      Request("api", "9788700000001", "a", FALSE, "epub", "a/book.epub"),
      Request("api", "9788700000001", "a", TRUE, "mp3", "a/book.epub") }

MaterialIds == {r.material_id : r \in RequestPool}
TempPaths == {TempFilePath(r.material_id, r.storage_path) : r \in RequestPool}

\* MATERIAL_REGEX = /(?<![0-9])[0-9]{13}(?![0-9])/ on the ids of the pool
MATERIAL_REGEX_test(material_id) == Len(material_id) = 13

\* no file at a path of the temporary directory
NoFile == [content |-> "", by |-> ""]

\* the handler's steps in the try block (lines 45-68, 98-124), each awaited
\* before the next
StepAfter_UnlinkBeforeUpload(step) ==
    CASE step = "download" -> "analyze"
      [] step = "analyze" -> "unlink"
      [] step = "unlink" -> "upload"
      [] step = "upload" -> "done"

StepAfter(step) ==
    CASE step = "download" -> "analyze"
      [] step = "analyze" -> "upload"
      [] step = "upload" -> "unlink"
      [] step = "unlink" -> "done"

UploadsStarted_OneAfterTheOther == [realtime |-> "pending", firestore |-> "idle"]

\* Promise.all([uploadEpubStatsToRealtime(...), uploadEpubStatsToFirestore(...)]):
\* both calls are made before the await
UploadsStarted == [realtime |-> "pending", firestore |-> "pending"]

InitHandlers ==
    /\ request \in [Invocations -> RequestPool]
    /\ hpc = [i \in Invocations |-> "start"]
    /\ tempFilePath = [i \in Invocations |-> ""]
    /\ buffer = [i \in Invocations |-> ""]
    /\ handlerAnalysis = [i \in Invocations |-> ""]
    /\ upload = [i \in Invocations |-> [realtime |-> "idle", firestore |-> "idle"]]
    /\ unlink = [i \in Invocations |-> "none"]
    /\ tempFiles = [tempPath \in TempPaths |-> NoFile]
    /\ realtimeDb = [material_id \in MaterialIds |-> ""]
    /\ firestoreDb = [material_id \in MaterialIds |-> ""]
    /\ calls = 0 /\ thrown = ""
    /\ IdleLix /\ IdleMedian /\ IdleFilter /\ IdlePipe /\ IdleSearch /\ IdleText /\ IdleTasks

\* handleAnalyzeEpubTrigger, lines 24-43: the returns and throws before the try
TriggerChecks(i) ==
    /\ hpc[i] = "start"
    /\ request[i].handler = "trigger"
    /\ hpc' = [hpc EXCEPT ![i] =
                  IF ~ request[i].exists \/ request[i].material_ext # "epub" THEN "returned"
                  ELSE IF request[i].material_id = "" \/ request[i].publisher_id = ""
                  THEN "failed"
                  ELSE "download"]
    /\ UNCHANGED <<request, tempFilePath, buffer, handlerAnalysis, upload, unlink,
                   tempFiles, realtimeDb, firestoreDb,
                   calls, thrown, lixVars, medianVars, filterVars, pipeVars, searchVars,
                   textVars, taskVars>>

\* handleAnalyzeEpubAPI, lines 84-96: the check of the id, the two lookups
\* and the check of the file type
ApiChecks(i) ==
    /\ hpc[i] = "start"
    /\ request[i].handler = "api"
    /\ hpc' = [hpc EXCEPT ![i] =
                  IF request[i].material_id = ""
                        \/ ~ MATERIAL_REGEX_test(request[i].material_id)
                  THEN "returned"
                  ELSE IF request[i].publisher_id = "" \/ ~ request[i].exists THEN "failed"
                  ELSE IF request[i].material_ext # "epub" THEN "returned"
                  ELSE "download"]
    /\ UNCHANGED <<request, tempFilePath, buffer, handlerAnalysis, upload, unlink,
                   tempFiles, realtimeDb, firestoreDb,
                   calls, thrown, lixVars, medianVars, filterVars, pipeVars, searchVars,
                   textVars, taskVars>>

\* downloadEpubFromStorage, lines 213-227: the temp path, the check that the
\* object exists, and the start of file.download, which creates the file at
\* the temp path or empties the one that is there
BeginDownload(i) ==
    /\ hpc[i] = "download"
    /\ LET tempPath == TempFilePath(request[i].material_id, request[i].storage_path)
       IN  /\ tempFilePath' = [tempFilePath EXCEPT ![i] = tempPath]
           /\ IF StorageObjects[request[i].storage_path] = ""
              THEN /\ hpc' = [hpc EXCEPT ![i] = "failed"]
                   /\ UNCHANGED tempFiles
              ELSE /\ hpc' = [hpc EXCEPT ![i] = "downloading"]
                   /\ tempFiles' = [tempFiles EXCEPT ![tempPath] =
                                       [content |-> "partial", by |-> i]]
    /\ UNCHANGED <<request, buffer, handlerAnalysis, upload, unlink, realtimeDb,
                   firestoreDb,
                   calls, thrown, lixVars, medianVars, filterVars, pipeVars, searchVars,
                   textVars, taskVars>>

\* line 227: file.download resolves.  The file holds the object, unless
\* another invocation has written to the same path since this one opened it
\* or is still writing to it (the two streams write one file, which ends up
\* as this object or as neither), or has removed it (this stream then wrote
\* to a file without a name).
FinishDownload(i) ==
    /\ hpc[i] = "downloading"
    /\ LET file == tempFiles[tempFilePath[i]]
           object == StorageObjects[request[i].storage_path]
           racing == \/ file.by # i
                     \/ \E j \in Invocations \ {i} :
                           hpc[j] = "downloading" /\ tempFilePath[j] = tempFilePath[i]
       IN  \E content \in (IF file = NoFile THEN {""}
                           ELSE IF racing THEN {object, "partial"}
                           ELSE {object}) :
               tempFiles' = [tempFiles EXCEPT ![tempFilePath[i]] =
                                IF content = "" THEN NoFile
                                ELSE [content |-> content, by |-> i]]
    /\ hpc' = [hpc EXCEPT ![i] = StepAfter("download")]
    /\ UNCHANGED <<request, tempFilePath, buffer, handlerAnalysis, upload, unlink,
                   realtimeDb, firestoreDb,
                   calls, thrown, lixVars, medianVars, filterVars, pipeVars, searchVars,
                   textVars, taskVars>>

\* line 227: file.download rejects; what was written stays
FailDownload(i) ==
    /\ hpc[i] = "downloading"
    /\ hpc' = [hpc EXCEPT ![i] = "failed"]
    /\ UNCHANGED <<request, tempFilePath, buffer, handlerAnalysis, upload, unlink,
                   tempFiles, realtimeDb, firestoreDb,
                   calls, thrown, lixVars, medianVars, filterVars, pipeVars, searchVars,
                   textVars, taskVars>>

\* analyzeEpub, part_001:122: fs.promises.readFile(filePath)
ReadFile(i) ==
    /\ hpc[i] = "analyze"
    /\ IF tempFiles[tempFilePath[i]] = NoFile
       THEN /\ hpc' = [hpc EXCEPT ![i] = "failed"]
            /\ UNCHANGED buffer
       ELSE /\ hpc' = [hpc EXCEPT ![i] = "analyzing"]
            /\ buffer' = [buffer EXCEPT ![i] = tempFiles[tempFilePath[i]].content]
    /\ UNCHANGED <<request, tempFilePath, handlerAnalysis, upload, unlink, tempFiles,
                   realtimeDb, firestoreDb,
                   calls, thrown, lixVars, medianVars, filterVars, pipeVars, searchVars,
                   textVars, taskVars>>

\* the rest of analyzeEpub, on the buffer: it throws on what is no EPUB
Analyze(i) ==
    /\ hpc[i] = "analyzing"
    /\ IF buffer[i] \in {"partial", "broken"}
       THEN /\ hpc' = [hpc EXCEPT ![i] = "failed"]
            /\ UNCHANGED handlerAnalysis
       ELSE /\ hpc' = [hpc EXCEPT ![i] = StepAfter("analyze")]
            /\ handlerAnalysis' = [handlerAnalysis EXCEPT ![i] = "analysis of " \o buffer[i]]
    /\ UNCHANGED <<request, tempFilePath, buffer, upload, unlink, tempFiles,
                   realtimeDb, firestoreDb,
                   calls, thrown, lixVars, medianVars, filterVars, pipeVars, searchVars,
                   textVars, taskVars>>

\* lines 51-54: the two uploads are called
StartUploads(i) ==
    /\ hpc[i] = "upload"
    /\ upload' = [upload EXCEPT ![i] = UploadsStarted]
    /\ hpc' = [hpc EXCEPT ![i] = "uploading"]
    /\ UNCHANGED <<request, tempFilePath, buffer, handlerAnalysis, unlink, tempFiles,
                   realtimeDb, firestoreDb,
                   calls, thrown, lixVars, medianVars, filterVars, pipeVars, searchVars,
                   textVars, taskVars>>

\* uploadEpubStatsToRealtime, lines 282-286: realtime.ref('/').update(...)
\* resolves, the analysis stored under the material
WriteRealtime(i) ==
    /\ upload[i].realtime = "pending"
    /\ realtimeDb' = [realtimeDb EXCEPT ![request[i].material_id] = handlerAnalysis[i]]
    /\ upload' = [upload EXCEPT ![i].realtime = "written"]
    /\ UNCHANGED <<request, hpc, tempFilePath, buffer, handlerAnalysis, unlink, tempFiles,
                   firestoreDb,
                   calls, thrown, lixVars, medianVars, filterVars, pipeVars, searchVars,
                   textVars, taskVars>>

\* lines 287-290: the update rejects
FailRealtime(i) ==
    /\ upload[i].realtime = "pending"
    /\ upload' = [upload EXCEPT ![i].realtime = "failed"]
    /\ UNCHANGED <<request, hpc, tempFilePath, buffer, handlerAnalysis, unlink, tempFiles,
                   realtimeDb, firestoreDb,
                   calls, thrown, lixVars, medianVars, filterVars, pipeVars, searchVars,
                   textVars, taskVars>>

\* uploadEpubStatsToFirestore, lines 258-263: .doc(newId).set(newData) resolves
WriteFirestore(i) ==
    /\ upload[i].firestore = "pending"
    /\ firestoreDb' = [firestoreDb EXCEPT ![request[i].material_id] = handlerAnalysis[i]]
    /\ upload' = [upload EXCEPT ![i].firestore = "written"]
    /\ UNCHANGED <<request, hpc, tempFilePath, buffer, handlerAnalysis, unlink, tempFiles,
                   realtimeDb,
                   calls, thrown, lixVars, medianVars, filterVars, pipeVars, searchVars,
                   textVars, taskVars>>

\* lines 264-268: the set rejects
FailFirestore(i) ==
    /\ upload[i].firestore = "pending"
    /\ upload' = [upload EXCEPT ![i].firestore = "failed"]
    /\ UNCHANGED <<request, hpc, tempFilePath, buffer, handlerAnalysis, unlink, tempFiles,
                   realtimeDb, firestoreDb,
                   calls, thrown, lixVars, medianVars, filterVars, pipeVars, searchVars,
                   textVars, taskVars>>

\* await Promise.all([...]) resolves when both uploads have resolved
UploadsResolve(i) ==
    /\ hpc[i] = "uploading"
    /\ upload[i].realtime = "written" /\ upload[i].firestore = "written"
    /\ hpc' = [hpc EXCEPT ![i] = StepAfter("upload")]
    /\ UNCHANGED <<request, tempFilePath, buffer, handlerAnalysis, upload, unlink,
                   tempFiles, realtimeDb, firestoreDb,
                   calls, thrown, lixVars, medianVars, filterVars, pipeVars, searchVars,
                   textVars, taskVars>>

\* await Promise.all([...]) rejects as soon as one upload has rejected; the
\* catch of lines 69-73 throws, and the other upload goes on
UploadsReject(i) ==
    /\ hpc[i] = "uploading"
    /\ upload[i].realtime = "failed" \/ upload[i].firestore = "failed"
    /\ hpc' = [hpc EXCEPT ![i] = "failed"]
    /\ UNCHANGED <<request, tempFilePath, buffer, handlerAnalysis, upload, unlink,
                   tempFiles, realtimeDb, firestoreDb,
                   calls, thrown, lixVars, medianVars, filterVars, pipeVars, searchVars,
                   textVars, taskVars>>

\* lines 57-68: fs.unlink(tempFilePath, callback) is called, not awaited, and
\* the handler returns
IssueUnlink(i) ==
    /\ hpc[i] = "unlink"
    /\ unlink' = [unlink EXCEPT ![i] = "issued"]
    /\ hpc' = [hpc EXCEPT ![i] = StepAfter("unlink")]
    /\ UNCHANGED <<request, tempFilePath, buffer, handlerAnalysis, upload, tempFiles,
                   realtimeDb, firestoreDb,
                   calls, thrown, lixVars, medianVars, filterVars, pipeVars, searchVars,
                   textVars, taskVars>>

\* the unlink is carried out: the file at the path is removed, whoever wrote
\* it; without a file there the callback logs the error
RunUnlink(i) ==
    /\ unlink[i] = "issued"
    /\ unlink' = [unlink EXCEPT ![i] =
                     IF tempFiles[tempFilePath[i]] = NoFile THEN "error" ELSE "deleted"]
    /\ tempFiles' = [tempFiles EXCEPT ![tempFilePath[i]] = NoFile]
    /\ UNCHANGED <<request, hpc, tempFilePath, buffer, handlerAnalysis, upload,
                   realtimeDb, firestoreDb,
                   calls, thrown, lixVars, medianVars, filterVars, pipeVars, searchVars,
                   textVars, taskVars>>

NextHandlers ==
    \/ \E i \in Invocations : TriggerChecks(i)
    \/ \E i \in Invocations : ApiChecks(i)
    \/ \E i \in Invocations : BeginDownload(i)
    \/ \E i \in Invocations : FinishDownload(i)
    \/ \E i \in Invocations : FailDownload(i)
    \/ \E i \in Invocations : ReadFile(i)
    \/ \E i \in Invocations : Analyze(i)
    \/ \E i \in Invocations : StartUploads(i)
    \/ \E i \in Invocations : WriteRealtime(i)
    \/ \E i \in Invocations : FailRealtime(i)
    \/ \E i \in Invocations : WriteFirestore(i)
    \/ \E i \in Invocations : FailFirestore(i)
    \/ \E i \in Invocations : UploadsResolve(i)
    \/ \E i \in Invocations : UploadsReject(i)
    \/ \E i \in Invocations : IssueUnlink(i)
    \/ \E i \in Invocations : RunUnlink(i)

SpecHandlers == InitHandlers /\ [][NextHandlers]_vars

(***************************************************************************)
(* Claims about the handlers                                               *)
(***************************************************************************)
BothWritten(i) == upload[i].realtime = "written" /\ upload[i].firestore = "written"

\* C28: a handler downloads, then analyzes, then uploads to both sinks, then
\* issues the deletion of the temp file: an analysis exists only of a buffer
\* read from a downloaded file, uploads are started only with an analysis, and
\* the deletion is issued only once both uploads have succeeded.  A handler
\* that has thrown has therefore issued no deletion, and one that has
\* returned after its try block has.
C28_UnlinkOnlyAfterBothUploads ==
    \A i \in DOMAIN hpc :
        /\ buffer[i] # "" => tempFilePath[i] # ""
        /\ handlerAnalysis[i] # "" => buffer[i] # ""
        /\ upload[i].realtime # "idle" \/ upload[i].firestore # "idle"
              => handlerAnalysis[i] # ""
        /\ unlink[i] # "none" => BothWritten(i)
        /\ hpc[i] = "failed" => unlink[i] = "none"
        /\ hpc[i] = "done" <=> unlink[i] # "none"

\* both invocations have downloaded their own file and thrown, the first in
\* the analysis, the second on a failed upload, and both files are still there
C28_Witness ==
    /\ DOMAIN hpc = Invocations
    /\ hpc["first"] = "failed" /\ buffer["first"] = "broken"
    /\ hpc["second"] = "failed" /\ upload["second"].firestore = "failed"
    /\ upload["second"].realtime = "written"
    /\ tempFiles[tempFilePath["first"]] = [content |-> "broken", by |-> "first"]
    /\ tempFiles[tempFilePath["second"]] = [content |-> "novel of a", by |-> "second"]

\* invocation i has downloaded its file and not yet read it, and invocation j
\* has removed the file
Deleted(i, j) ==
    /\ hpc[i] = "analyze"
    /\ tempFilePath[j] = tempFilePath[i]
    /\ unlink[j] = "deleted"
    /\ tempFiles[tempFilePath[i]] = NoFile

\* invocation i has downloaded its file and not yet read it, and the file is
\* no longer what it downloaded: invocation j has written to it
Overwritten(i, j) ==
    /\ hpc[i] = "analyze"
    /\ tempFilePath[j] = tempFilePath[i]
    /\ tempFiles[tempFilePath[i]] # NoFile
    /\ tempFiles[tempFilePath[i]] #
          [content |-> StorageObjects[request[i].storage_path], by |-> i]

\* C29: the temp file path of an invocation is the temporary directory and the
\* basename of its storage_path, whatever the material; an invocation that
\* has downloaded its file and not yet read it finds there what it
\* downloaded, unless the other invocation, with a storage path of the same
\* basename, has overwritten or deleted the file.
C29_TempFileSharedByBasename ==
    \A i \in DOMAIN hpc :
        /\ tempFilePath[i] # "" =>
              tempFilePath[i] = "/tmp/" \o fileNameOf(request[i].storage_path)
        /\ hpc[i] = "analyze" =>
              \/ tempFiles[tempFilePath[i]] =
                    [content |-> StorageObjects[request[i].storage_path], by |-> i]
              \/ \E j \in Invocations \ {i} :
                    /\ fileNameOf(request[j].storage_path)
                          = fileNameOf(request[i].storage_path)
                    /\ Deleted(i, j) \/ Overwritten(i, j)

\* two materials at two storage paths with one basename: the first invocation
\* has downloaded its book and not yet read it, and the second, done with its
\* own book, has deleted the file
C29_Witness ==
    /\ DOMAIN hpc = Invocations
    /\ request["first"].storage_path = "a/book.epub"
    /\ request["second"].storage_path = "b/book.epub"
    /\ Deleted("first", "second")

\* as above, the second invocation writing its own download to the file instead
C29_WitnessOverwritten ==
    /\ DOMAIN hpc = Invocations
    /\ request["first"].storage_path = "a/book.epub"
    /\ request["second"].storage_path = "b/book.epub"
    /\ Overwritten("first", "second")
    /\ tempFiles[tempFilePath["first"]] = [content |-> "book of b", by |-> "second"]

\* C30: the two writes of an invocation are started together, a write that
\* has resolved stays in its sink whatever becomes of the other, and a handler
\* that throws after starting them does so because one of them failed.
C30_UploadsTogetherNoRollback ==
    \A i \in DOMAIN hpc :
        /\ upload[i].realtime = "idle" <=> upload[i].firestore = "idle"
        /\ upload[i].realtime = "written" => realtimeDb[request[i].material_id] # ""
        /\ upload[i].firestore = "written" => firestoreDb[request[i].material_id] # ""
        /\ hpc[i] = "failed" /\ upload[i].realtime # "idle"
              => upload[i].realtime = "failed" \/ upload[i].firestore = "failed"

\* the first invocation has thrown on the failed write to Firestore while the
\* Realtime Database holds its analysis and Firestore holds none; the other
\* invocation never wrote
C30_Witness ==
    /\ DOMAIN hpc = Invocations
    /\ hpc["first"] = "failed"
    /\ upload["first"] = [realtime |-> "written", firestore |-> "failed"]
    /\ upload["second"] = [realtime |-> "idle", firestore |-> "idle"]
    /\ realtimeDb[request["first"].material_id] = handlerAnalysis["first"]
    /\ firestoreDb[request["first"].material_id] = ""

====
